---- MODULE Spec2Model ----
(***************************************************************************)
(* Model of applications/multisite/intersite.py: the intersite             *)
(* reconciliation engine (IntersiteTag, EndpointHandler, MultisiteMonitor, *)
(* LocalSite/RemoteSite, MultisiteCollector).                              *)
(*                                                                         *)
(* Python objects are records.  A Python exception is a result with        *)
(* raised = TRUE that carries the state reached when it was thrown.        *)
(* Python's None is the string "None" where the value is a string, and an  *)
(* index of 0 where a lookup found no object.                              *)
(***************************************************************************)
EXTENDS Integers, Sequences, FiniteSets, TLC

VARIABLES
    sites,       \* MultisiteCollector.sites: list of Site objects
    config,      \* MultisiteCollector.config: the current IntersiteConfiguration
    configFile,  \* the JSON document stored at MultisiteCollector.config_filename
    nextId,      \* generation of the next objects created (identity is <<generation, index>>);
                 \* under SpecMon the number of the next event of the subscription
    mon,         \* the MultisiteMonitor thread of the local site
    ctl,         \* the control path (command thread) while inside a monitor method
    events,      \* endpoint events pending on the local site's subscription
    last         \* observation: the last operation, its inputs and the requests it sent

vars == <<sites, config, configFile, nextId, mon, ctl, events, last>>

None == "None"

-----------------------------------------------------------------------------
(* Python list helpers *)

Range(s) == {s[i] : i \in 1..Len(s)}

\* f at the value of x: a local variable, computed once when it is assigned
With(x, f(_)) == CHOOSE y \in { f(v) : v \in {x} } : TRUE

\* index of the first element equal to x, 0 when there is none
IndexOf(s, x) ==
    IF \E i \in 1..Len(s) : s[i] = x
    THEN CHOOSE i \in 1..Len(s) : s[i] = x /\ \A j \in 1..(i-1) : s[j] # x
    ELSE 0

RemoveAt(s, i) == SubSeq(s, 1, i-1) \o SubSeq(s, i+1, Len(s))

\* list.remove(x) for an x that is in the list: drops the first equal element
ListRemove(s, x) == IF IndexOf(s, x) = 0 THEN s ELSE RemoveAt(s, IndexOf(s, x))

RECURSIVE SeqSum(_)
SeqSum(s) == IF Len(s) = 0 THEN 0 ELSE Head(s) + SeqSum(Tail(s))

RECURSIVE Flatten(_)
Flatten(ss) == IF Len(ss) = 0 THEN <<>> ELSE Head(ss) \o Flatten(Tail(ss))

-----------------------------------------------------------------------------
(* Strings.  A name is a sequence of '-'-free segments: <<"aa:bb">> is the  *)
(* string aa:bb and <<"x", "y">> is the string x-y.                         *)

\* s.rpartition('-')[-1]: what follows the last '-', the whole string without one
RPartitionLast(s) == IF Len(s) = 0 THEN s ELSE <<s[Len(s)]>>

\* str(IntersiteTag(tenant, app, epg, site)):
\* 'isite:' + tenant + ':' + app + ':' + epg + ':' + site
IntersiteTagStr(tenant_name, app_name, epg_name, remote_site) ==
    <<"isite", tenant_name, app_name, epg_name, remote_site>>

-----------------------------------------------------------------------------
(* ExportPolicy and its parts *)

\* ExportPolicy.get_site_policies x RemoteSitePolicy.get_interfaces, in the
\* order of the two nested loops that walk them
PolicyTargets(policy) ==
    Flatten([s \in 1..Len(policy.remote_sites) |->
               [k \in 1..Len(policy.remote_sites[s].interfaces) |->
                  [site |-> policy.remote_sites[s].name,
                   l3out |-> policy.remote_sites[s].interfaces[k]]]])

\* the targets of a list of RemoteSitePolicy
SitesTargets(remote_sites) == PolicyTargets([remote_sites |-> remote_sites])

\* LocalSite.get_policy_for_epg: index in policy_db of the first policy of
\* the scope, 0 for None
GetPolicyForEpg(policy_db, tenant_name, app_name, epg_name) ==
    IF \E i \in 1..Len(policy_db) :
           /\ policy_db[i].tenant = tenant_name
           /\ policy_db[i].app = app_name
           /\ policy_db[i].epg = epg_name
    THEN CHOOSE i \in 1..Len(policy_db) :
           /\ policy_db[i].tenant = tenant_name
           /\ policy_db[i].app = app_name
           /\ policy_db[i].epg = epg_name
           /\ \A j \in 1..(i-1) : ~ (/\ policy_db[j].tenant = tenant_name
                                     /\ policy_db[j].app = app_name
                                     /\ policy_db[j].epg = epg_name)
    ELSE 0

\* MultisiteCollector.get_site: index in sites of the first site of that
\* name, 0 for None
GetSite(ss, name) ==
    IF \E i \in 1..Len(ss) : ss[i].name = name
    THEN CHOOSE i \in 1..Len(ss) : ss[i].name = name /\ \A j \in 1..(i-1) : ss[j].name # name
    ELSE 0

\* MultisiteCollector.get_local_site: index of the first local site, 0 for None
GetLocalSite(ss) ==
    IF \E i \in 1..Len(ss) : ss[i].local
    THEN CHOOSE i \in 1..Len(ss) : ss[i].local /\ \A j \in 1..(i-1) : ~ss[j].local
    ELSE 0

-----------------------------------------------------------------------------
(* EndpointHandler: the batch store.  db maps a remote site name to the     *)
(* list of tenant documents queued for it.  A tenant document is            *)
(* [name, children], children the list of its l3extOut entries; an l3extOut *)
(* entry is [name, children], children the list of its l3extInstP entries.  *)

EmptyDb == [s \in {} |-> <<>>]

\* the l3extInstP document of OutsideNetwork(endpoint.mac) as built in
\* _create_tenant_with_l3instp
InstP(l3out_policy, endpoint, tag) ==
    [name   |-> endpoint.mac,
     status |-> IF endpoint.deleted THEN "deleted" ELSE "",
     ip     |-> IF endpoint.deleted THEN <<>> ELSE <<endpoint.ip, "/32">>,
     tag    |-> tag,
     prov   |-> l3out_policy.provides,
     cons   |-> l3out_policy.consumes,
     prot   |-> l3out_policy.protected_by,
     consif |-> l3out_policy.consumes_interface]

\* EndpointHandler._create_tenant_with_l3instp
CreateTenantWithL3instp(l3out_policy, endpoint, tag) ==
    [name     |-> l3out_policy.tenant,
     children |-> << [name     |-> l3out_policy.name,
                      children |-> << InstP(l3out_policy, endpoint, tag) >>] >>]

\* the loop "for l3instp in children: ... children.remove(l3instp)" of
\* _remove_queued_endpoint: the list is changed while it is walked by index
RECURSIVE RemoveInstpLoop(_, _, _)
RemoveInstpLoop(children, mac, i) ==
    IF i > Len(children) THEN children
    ELSE IF RPartitionLast(children[i].name) = mac
         THEN RemoveInstpLoop(ListRemove(children, children[i]), mac, i + 1)
         ELSE RemoveInstpLoop(children, mac, i + 1)

\* mutant: nothing queued is removed
RemoveQueuedEndpointKeep(db, remote_site, l3out_policy, endpoint) == db

\* EndpointHandler._remove_queued_endpoint
RemoveQueuedEndpoint(db, remote_site, l3out_policy, endpoint) ==
    IF remote_site \notin DOMAIN db THEN db
    ELSE LET entry == db[remote_site]
             L3out(l) == IF l.name # l3out_policy.name THEN l
                         ELSE [l EXCEPT !.children = RemoveInstpLoop(l.children, endpoint.mac, 1)]
             Tenant(t) == IF t.name # l3out_policy.tenant THEN t
                          ELSE [t EXCEPT !.children =
                                   [k \in 1..Len(t.children) |-> L3out(t.children[k])]]
         IN [db EXCEPT ![remote_site] = [k \in 1..Len(entry) |-> Tenant(entry[k])]]

\* index of the first element of that name, 0 when there is none
FindByName(docs, name) ==
    IF \E i \in 1..Len(docs) : docs[i].name = name
    THEN CHOOSE i \in 1..Len(docs) : docs[i].name = name /\ \A j \in 1..(i-1) : docs[j].name # name
    ELSE 0

\* mutant: the new document takes the place of what is queued for the site
MergeTenantJsonReplace(db, remote_site, new_json) ==
    [s \in DOMAIN db \cup {remote_site} |-> IF s = remote_site THEN <<new_json>> ELSE db[s]]

\* EndpointHandler._merge_tenant_json
MergeTenantJson(db, remote_site, new_json) ==
    IF remote_site \notin DOMAIN db
    THEN [s \in DOMAIN db \cup {remote_site} |-> IF s = remote_site THEN <<new_json>> ELSE db[s]]
    ELSE LET db_json == db[remote_site]
             t == FindByName(db_json, new_json.name)
         IN IF t = 0 THEN [db EXCEPT ![remote_site] = Append(db_json, new_json)]
            ELSE LET new_l3out == new_json.children[1]
                     o == FindByName(db_json[t].children, new_l3out.name)
                 IN IF o = 0
                    THEN [db EXCEPT ![remote_site][t].children = Append(@, new_l3out)]
                    ELSE LET new_l3instp == new_l3out.children[1]
                         IN IF new_l3instp \notin Range(db_json[t].children[o].children)
                            THEN [db EXCEPT ![remote_site][t].children[o].children =
                                      Append(@, new_l3instp)]
                            ELSE db

\* one pass of the body of the two nested loops of add_endpoint
AddEndpointTarget(db, target, endpoint, tag) ==
    With(RemoveQueuedEndpoint(db, target.site, target.l3out, endpoint),
         LAMBDA removed :
             MergeTenantJson(removed, target.site,
                             CreateTenantWithL3instp(target.l3out, endpoint, tag)))

RECURSIVE AddEndpointLoop(_, _, _, _, _)
AddEndpointLoop(db, targets, endpoint, tag, i) ==
    IF i > Len(targets) THEN db
    ELSE With(AddEndpointTarget(db, targets[i], endpoint, tag),
              LAMBDA queued : AddEndpointLoop(queued, targets, endpoint, tag, i + 1))

\* the filter at the head of add_endpoint: "Ignore events without IP addresses"
IgnoredEndpoint(endpoint) ==
    endpoint.ip = "0.0.0.0" \/ (endpoint.ip = None /\ ~endpoint.deleted)

\* mutant: an endpoint of a scope without a policy is queued for the targets
\* of the first policy of the registry
AddEndpointAnyPolicy(db, endpoint, local_site) ==
    IF IgnoredEndpoint(endpoint) \/ local_site.policy_db = <<>> THEN db
    ELSE LET p == GetPolicyForEpg(local_site.policy_db,
                                  endpoint.tenant, endpoint.app, endpoint.epg)
         IN AddEndpointLoop(db, PolicyTargets(local_site.policy_db[IF p = 0 THEN 1 ELSE p]),
                            endpoint,
                            IntersiteTagStr(endpoint.tenant, endpoint.app,
                                            endpoint.epg, local_site.name), 1)

\* EndpointHandler.add_endpoint(endpoint, local_site): the new db
AddEndpoint(db, endpoint, local_site) ==
    IF IgnoredEndpoint(endpoint) THEN db
    ELSE LET p == GetPolicyForEpg(local_site.policy_db,
                                  endpoint.tenant, endpoint.app, endpoint.epg)
         IN IF p = 0 THEN db
            ELSE AddEndpointLoop(db, PolicyTargets(local_site.policy_db[p]), endpoint,
                                 IntersiteTagStr(endpoint.tenant, endpoint.app,
                                                 endpoint.epg, local_site.name), 1)

\* a request sent to a site's session
Push(site, url, data, ok) == [op |-> "push", site |-> site, url |-> url, data |-> data, ok |-> ok]
Get(site, url, ok) == [op |-> "get", site |-> site, url |-> url, data |-> <<>>, ok |-> ok]

\* mutant: the pushes to a site stop at the first one that fails
PushTenantsStopOnFailure(db, remote_site, fails) ==
    LET all == [k \in 1..Len(db[remote_site]) |->
                  Push(remote_site, <<"tenant">>, db[remote_site][k],
                       <<remote_site, db[remote_site][k].name>> \notin fails)]
        bad == {k \in 1..Len(all) : ~all[k].ok}
    IN IF bad = {} THEN all
       ELSE SubSeq(all, 1, CHOOSE k \in bad : \A j \in bad : k <= j)

\* the loop "for tenant_json in self.db[remote_site]" of push_to_remote_sites:
\* one push per queued tenant document, failures only logged.  fails is the
\* set of <<site, tenant>> whose push the remote site answers with not ok.
PushTenants(db, remote_site, fails) ==
    [k \in 1..Len(db[remote_site]) |->
        Push(remote_site, <<"tenant">>, db[remote_site][k],
             <<remote_site, db[remote_site][k].name>> \notin fails)]

\* the loop "for remote_site in self.db" of push_to_remote_sites; order is
\* the order in which the dictionary yields its keys
RECURSIVE PushLoop(_, _, _, _, _, _)
PushLoop(db, ss, order, fails, i, sent) ==
    IF i > Len(order) THEN [db |-> EmptyDb, sent |-> sent, raised |-> FALSE]
    ELSE IF GetSite(ss, order[i]) = 0
         THEN [db |-> db, sent |-> sent, raised |-> TRUE]   \* assert remote_site_obj is not None
         ELSE PushLoop(db, ss, order, fails, i + 1, sent \o PushTenants(db, order[i], fails))

\* EndpointHandler.push_to_remote_sites(collector)
PushToRemoteSites(db, ss, order, fails) == PushLoop(db, ss, order, fails, 1, <<>>)

\* the orders in which a dictionary with these keys can yield them
KeyOrders(keys) ==
    {o \in [1..Cardinality(keys) -> keys] : \A i, j \in 1..Cardinality(keys) : i # j => o[i] # o[j]}

-----------------------------------------------------------------------------
(* MultisiteMonitor.verify_endpoints.  A remote site's inventory maps       *)
(* <<site, l3out tenant, l3out name>> to the list of l3extInstP objects     *)
(* configured there, each [name, children], a child being                   *)
(* [kind, name, status] with kind the APIC class of the child.              *)

\* ExportPolicy._get_l3out_policy: index in PolicyTargets(policy) of the
\* first interface of that name and tenant under a site of that name, 0 for None
GetL3outPolicy(policy, site_name, l3out_name, l3out_tenant) ==
    LET targets == PolicyTargets(policy)
        Match(i) == /\ targets[i].site = site_name
                    /\ targets[i].l3out.name = l3out_name
                    /\ targets[i].l3out.tenant = l3out_tenant
    IN IF \E i \in 1..Len(targets) : Match(i)
       THEN CHOOSE i \in 1..Len(targets) : Match(i) /\ \A j \in 1..(i-1) : ~Match(j)
       ELSE 0

\* the loop "for x in names: if x == name: return True else: return False":
\* it returns in its first pass, and falls through (None) on an empty list
FirstIs(names, name) == Len(names) > 0 /\ names[1] = name

\* ExportPolicy.provides
Provides(policy, site_name, l3out_name, l3out_tenant, contract_name) ==
    LET i == GetL3outPolicy(policy, site_name, l3out_name, l3out_tenant)
    IN IF i = 0 THEN FALSE ELSE FirstIs(PolicyTargets(policy)[i].l3out.provides, contract_name)

\* ExportPolicy.consumes
Consumes(policy, site_name, l3out_name, l3out_tenant, contract_name) ==
    LET i == GetL3outPolicy(policy, site_name, l3out_name, l3out_tenant)
    IN IF i = 0 THEN FALSE ELSE FirstIs(PolicyTargets(policy)[i].l3out.consumes, contract_name)

\* ExportPolicy.protected_by
ProtectedBy(policy, site_name, l3out_name, l3out_tenant, taboo_name) ==
    LET i == GetL3outPolicy(policy, site_name, l3out_name, l3out_tenant)
    IN IF i = 0 THEN FALSE ELSE FirstIs(PolicyTargets(policy)[i].l3out.protected_by, taboo_name)

\* ExportPolicy.consumes_cif
ConsumesCif(policy, site_name, l3out_name, l3out_tenant, consumes_interface) ==
    LET i == GetL3outPolicy(policy, site_name, l3out_name, l3out_tenant)
    IN IF i = 0 THEN FALSE
       ELSE FirstIs(PolicyTargets(policy)[i].l3out.consumes_interface, consumes_interface)

BindingKinds == {"fvRsProv", "fvRsCons", "fvRsProtBy", "fvRsConsIf"}

\* the test the if/elif chain of verify_endpoints makes on one child: TRUE
\* when the chain reaches "dirty = True" for it
Unauthorized(policy, site_name, l3out, child) ==
    CASE child.kind = "fvRsProv" ->
             ~Provides(policy, site_name, l3out.name, l3out.tenant, child.name)
      [] child.kind = "fvRsCons" ->
             ~Consumes(policy, site_name, l3out.name, l3out.tenant, child.name)
      [] child.kind = "fvRsProtBy" ->
             ~ProtectedBy(policy, site_name, l3out.name, l3out.tenant, child.name)
      [] child.kind = "fvRsConsIf" ->
             ~ConsumesCif(policy, site_name, l3out.name, l3out.tenant, child.name)
      [] OTHER -> FALSE

\* the loop over entry['l3extInstP']['children']: the entry as it is pushed
MarkEntry(policy, site_name, l3out, entry) ==
    [entry EXCEPT !.children =
        [k \in 1..Len(entry.children) |->
            IF Unauthorized(policy, site_name, l3out, entry.children[k])
            THEN [entry.children[k] EXCEPT !.status = "deleted"]
            ELSE entry.children[k]]]

Dirty(policy, site_name, l3out, entry) ==
    \E k \in 1..Len(entry.children) : Unauthorized(policy, site_name, l3out, entry.children[k])

InventoryKey(target) == <<target.site, target.l3out.tenant, target.l3out.name>>

InventoryAt(inv, key) == IF key \in DOMAIN inv THEN inv[key] ELSE <<>>

HasTag(entry, itag) ==
    \E k \in 1..Len(entry.children) :
        entry.children[k].kind = "tagInst" /\ entry.children[k].name = itag

\* the answer to the first query: the l3extInstP children of the l3out that
\* have a tagInst child named itag
QueryByTag(inv, key, itag) ==
    LET all == InventoryAt(inv, key) IN
    SelectSeq(all, LAMBDA e : HasTag(e, itag))

\* the answer to the second query: the l3extInstP children of the l3out whose
\* name is one of names, with their children
QueryByNames(inv, key, names) ==
    LET all == InventoryAt(inv, key) IN
    SelectSeq(all, LAMBDA e : e.name \in names)

L3outUrl(l3out) == <<"out", l3out.tenant, l3out.name>>

\* the body of the loop "for l3out in site.get_interfaces()" of
\* verify_endpoints for a registered site.  getFails is the set of
\* <<key, n>>, n the first or second query of the interface, that the remote
\* site answers with not ok; pushFails the set of <<key, name>> of the
\* pushes it answers with not ok.  stop tells that verify_endpoints returned.
VerifyTarget(policy, itag, target, inv, getFails, pushFails) ==
    LET key == InventoryKey(target)
        get1 == Get(target.site, <<"tag", key, itag>>, <<key, 1>> \notin getFails)
        tagged == QueryByTag(inv, key, itag)
        names == { tagged[k].name : k \in 1..Len(tagged) }
        get2 == Get(target.site, <<"names", key, names>>, <<key, 2>> \notin getFails)
        entries == QueryByNames(inv, key, names)
        dirty == SelectSeq(entries, LAMBDA e : Dirty(policy, target.site, target.l3out, e))
        pushes == [k \in 1..Len(dirty) |->
                     Push(target.site, L3outUrl(target.l3out),
                          MarkEntry(policy, target.site, target.l3out, dirty[k]),
                          <<key, dirty[k].name>> \notin pushFails)]
    IN IF ~get1.ok THEN [sent |-> <<get1>>, stop |-> TRUE]
       ELSE IF Len(tagged) = 0 THEN [sent |-> <<get1>>, stop |-> FALSE]
       ELSE IF ~get2.ok THEN [sent |-> <<get1, get2>>, stop |-> TRUE]
       ELSE [sent |-> <<get1, get2>> \o pushes, stop |-> FALSE]

RECURSIVE VerifyLoop(_, _, _, _, _, _, _, _, _)
VerifyLoop(policy, itag, ss, inv, getFails, pushFails, targets, i, sent) ==
    IF i > Len(targets) THEN [sent |-> sent, raised |-> FALSE]
    ELSE IF GetSite(ss, targets[i].site) = 0
         THEN [sent |-> sent, raised |-> TRUE]     \* site_obj is None: site_obj.session raises
         ELSE LET r == VerifyTarget(policy, itag, targets[i], inv, getFails, pushFails)
              IN IF r.stop THEN [sent |-> sent \o r.sent, raised |-> FALSE]
                 ELSE VerifyLoop(policy, itag, ss, inv, getFails, pushFails,
                                 targets, i + 1, sent \o r.sent)

\* mutant: the tag of the query is built with the name of the policy's first
\* remote site in place of the local site's
VerifyEndpointsByRemoteName(policy, local_name, ss, inv, getFails, pushFails) ==
    VerifyLoop(policy,
               IntersiteTagStr(policy.tenant, policy.app, policy.epg,
                               policy.remote_sites[1].name),
               ss, inv, getFails, pushFails, PolicyTargets(policy), 1, <<>>)

\* MultisiteMonitor.verify_endpoints(export_policy) of the monitor of the
\* local site named local_name: the requests it sends
VerifyEndpoints(policy, local_name, ss, inv, getFails, pushFails) ==
    VerifyLoop(policy,
               IntersiteTagStr(policy.tenant, policy.app, policy.epg, local_name),
               ss, inv, getFails, pushFails, PolicyTargets(policy), 1, <<>>)

-----------------------------------------------------------------------------
(* Site objects *)

\* SiteLoginCredentials.__init__
SiteLoginCredentials(ip_address, user_name, password, use_https) ==
    [ip_address |-> ip_address, user_name |-> user_name,
     password |-> password, use_https |-> use_https]

\* Site.__init__ / LocalSite.__init__ / RemoteSite.__init__: a site object.
\* monitor tells whether LocalSite.monitor holds a started MultisiteMonitor;
\* policy_db is LocalSite.policy_db and db is monitor._endpoints.db.
NewSite(id, name, credentials, local) ==
    [id |-> id, name |-> name, credentials |-> credentials, local |-> local,
     logged_in |-> FALSE, monitor |-> FALSE, policy_db |-> <<>>, db |-> EmptyDb]

\* mutant: the monitor is created whatever the login answers
StartSiteAlways(site, login_ok) ==
    [site EXCEPT !.logged_in = login_ok, !.monitor = site.local]

\* Site.start / LocalSite.start with the answer of the login request
StartSite(site, login_ok) ==
    [site EXCEPT !.logged_in = login_ok, !.monitor = site.local /\ login_ok]

-----------------------------------------------------------------------------
(* The monitor and registry methods the control path calls.  An operation   *)
(* result is [sites, sent, raised]: the collector's sites, the requests     *)
(* sent, and whether a Python exception ended the operation.  env holds the *)
(* answers of the world outside during one operation:                       *)
(*   loginFails  the names of the sites whose login is answered not ok      *)
(*   live        scope -> the endpoints Endpoint.get_all_by_epg returns     *)
(*   order       the order in which a dictionary yields site names          *)
(*   pushFails   the <<site, tenant>> whose tenant push is answered not ok  *)
(*   inv         the inventories of the remote sites                        *)
(*   getFails    the queries answered not ok                                *)
(*   entryFails  the pushes of single entries answered not ok               *)

Result(ss, sent, raised) == [sites |-> ss, sent |-> sent, raised |-> raised]

\* the keys of a dictionary in the order env.order gives the names
OrderKeys(keys, order) == SelectSeq(order, LAMBDA n : n \in keys)

RECURSIVE AddEndpoints(_, _, _, _)
AddEndpoints(db, endpoints, local_site, i) ==
    IF i > Len(endpoints) THEN db
    ELSE AddEndpoints(AddEndpoint(db, endpoints[i], local_site), endpoints, local_site, i + 1)

\* MultisiteMonitor.handle_existing_endpoints(policy) on the monitor of the
\* local site ss[l]
HandleExistingEndpoints(ss, l, policy, env) ==
    LET listing == Get(ss[l].name, <<"endpoints", policy.tenant, policy.app, policy.epg>>, TRUE)
    IN With(AddEndpoints(ss[l].db, env.live[<<policy.tenant, policy.app, policy.epg>>],
                         ss[l], 1),
       LAMBDA queued :
       With(PushToRemoteSites(queued, ss, OrderKeys(DOMAIN queued, env.order), env.pushFails),
       LAMBDA flush :
       With([ss EXCEPT ![l].db = flush.db],
       LAMBDA ss1 :
           IF flush.raised THEN Result(ss1, <<listing>> \o flush.sent, TRUE)
           ELSE With(VerifyEndpoints(policy, ss[l].name, ss1, env.inv, env.getFails,
                                     env.entryFails),
                     LAMBDA v : Result(ss1, <<listing>> \o flush.sent \o v.sent, v.raised)))))

\* mutant: the policy is appended, a registered policy of its scope stays
AddPolicyKeep(ss, l, policy, env) ==
    With([ss EXCEPT ![l].policy_db = IF policy \notin Range(@) THEN Append(@, policy) ELSE @],
         LAMBDA ss1 : IF ~ss[l].monitor THEN Result(ss1, <<>>, TRUE)
                      ELSE HandleExistingEndpoints(ss1, l, policy, env))

\* LocalSite.add_policy(policy) on the local site ss[l]
AddPolicy(ss, l, policy, env) ==
    LET policy_db == ss[l].policy_db
        old == GetPolicyForEpg(policy_db, policy.tenant, policy.app, policy.epg)
        removed == IF old # 0 THEN ListRemove(policy_db, policy_db[old]) ELSE policy_db
        added == IF policy \notin Range(removed) THEN Append(removed, policy) ELSE removed
    IN With([ss EXCEPT ![l].policy_db = added],
            LAMBDA ss1 : IF ~ss[l].monitor THEN Result(ss1, <<>>, TRUE)  \* self.monitor is None
                         ELSE HandleExistingEndpoints(ss1, l, policy, env))

\* an operation after another: nothing runs after an exception
Then(r, next(_)) ==
    With(r, LAMBDA done :
        IF done.raised THEN done
        ELSE With(next(done.sites),
                  LAMBDA n : Result(n.sites, done.sent \o n.sent, n.raised)))

\* the loop "for export_policy in self.config.export_policies" of
\* initialize_local_site
RECURSIVE AddPolicies(_, _, _, _, _)
AddPolicies(r, l, policies, i, env) ==
    IF i > Len(policies) \/ r.raised THEN r
    ELSE With(Then(r, LAMBDA ss : AddPolicy(ss, l, policies[i], env)),
              LAMBDA added : AddPolicies(added, l, policies, i + 1, env))

\* MultisiteCollector.initialize_local_site with self.config = cfg
InitializeLocalSite(ss, cfg, env) ==
    IF GetLocalSite(ss) = 0 THEN Result(ss, <<>>, FALSE)
    ELSE AddPolicies(Result(ss, <<>>, FALSE), GetLocalSite(ss), cfg.export_policies, 1, env)

\* the loop of delete_site: sites are removed from the list it walks by index
RECURSIVE DeleteSiteLoop(_, _, _)
DeleteSiteLoop(ss, name, i) ==
    IF i > Len(ss) THEN ss
    ELSE IF name = ss[i].name
         THEN DeleteSiteLoop(RemoveAt(ss, GetSite(ss, ss[i].name)), name, i + 1)
         ELSE DeleteSiteLoop(ss, name, i + 1)

\* MultisiteCollector.delete_site
DeleteSite(ss, name) == DeleteSiteLoop(ss, name, 1)

\* MultisiteCollector.add_site; login_ok is the answer to the site's login
AddSite(ss, id, name, credentials, local, login_ok) ==
    Append(DeleteSite(ss, name), StartSite(NewSite(id, name, credentials, local), login_ok))

\* MultisiteCollector.add_site_from_config
AddSiteFromConfig(ss, id, site, env) ==
    AddSite(ss, id, site.name,
            SiteLoginCredentials(site.ip_address, site.username, site.password,
                                 site.use_https = "True"),
            site.local = "True",
            site.name \notin env.loginFails)

\* SitePolicy.__eq__: every field but the name
SitePolicyEq(a, b) ==
    ~ (\/ a.username # b.username \/ a.ip_address # b.ip_address
       \/ a.password # b.password \/ a.local # b.local
       \/ a.use_https # b.use_https)

\* SitePolicy.__ne__
SitePolicyNe(a, b) == ~SitePolicyEq(a, b)

\* the loop "for new_site in new_config.site_policies" inside the first loop
\* of _reload_sites.  st is [sites, added, found]; gen the generation of the
\* objects this reload creates.
RECURSIVE FindOldSiteLoop(_, _, _, _, _, _)
FindOldSiteLoop(st, old_site, new_sites, j, gen, env) ==
    IF j > Len(new_sites) THEN st
    ELSE IF SitePolicyEq(new_sites[j], old_site)
         THEN IF SitePolicyNe(new_sites[j], old_site)
              THEN With([st EXCEPT !.sites = AddSiteFromConfig(DeleteSite(st.sites, new_sites[j].name),
                                                               <<gen, j>>, new_sites[j], env),
                                   !.added = st.added \/ new_sites[j].local = "True"],
                        LAMBDA replaced :
                            FindOldSiteLoop(replaced, old_site, new_sites, j + 1, gen, env))
              ELSE [st EXCEPT !.found = TRUE]
         ELSE FindOldSiteLoop(st, old_site, new_sites, j + 1, gen, env)

\* the first loop of _reload_sites: "for old_site in old_config.site_policies"
RECURSIVE OldSitesLoop(_, _, _, _, _, _)
OldSitesLoop(st, old_sites, new_sites, i, gen, env) ==
    IF i > Len(old_sites) THEN st
    ELSE With(FindOldSiteLoop([st EXCEPT !.found = FALSE], old_sites[i], new_sites, 1, gen, env),
         LAMBDA r :
         With(IF r.found THEN r
              ELSE [r EXCEPT !.sites = DeleteSite(r.sites, old_sites[i].name)],
         LAMBDA checked : OldSitesLoop(checked, old_sites, new_sites, i + 1, gen, env)))

\* the second loop of _reload_sites: "for new_site in new_config.site_policies"
RECURSIVE NewSitesLoop(_, _, _, _, _, _)
NewSitesLoop(st, old_sites, new_sites, j, gen, env) ==
    IF j > Len(new_sites) THEN st
    ELSE IF \E i \in 1..Len(old_sites) : new_sites[j].name = old_sites[i].name
         THEN NewSitesLoop(st, old_sites, new_sites, j + 1, gen, env)
         ELSE With([st EXCEPT !.sites = AddSiteFromConfig(st.sites, <<gen, j>>, new_sites[j], env),
                              !.added = st.added \/ new_sites[j].local = "True"],
                   LAMBDA added : NewSitesLoop(added, old_sites, new_sites, j + 1, gen, env))

\* MultisiteCollector._reload_sites: [sites, added (added_local_site), found]
ReloadSites(ss, old_config, new_config, gen, env) ==
    With(OldSitesLoop([sites |-> ss, added |-> FALSE, found |-> FALSE],
                      old_config.site_policies, new_config.site_policies, 1, gen, env),
         LAMBDA st : NewSitesLoop(st, old_config.site_policies, new_config.site_policies,
                                  1, gen, env))

\* ExportPolicy.has_same_epg
HasSameEpg(a, b) == ~ (a.tenant # b.tenant \/ a.app # b.app \/ a.epg # b.epg)

\* LocalSite.remove_policy on the local site ss[l]: list.remove raises
\* ValueError when the policy object is not in policy_db
RemovePolicy(ss, l, policy) ==
    IF policy \notin Range(ss[l].policy_db) THEN Result(ss, <<>>, TRUE)
    ELSE Result([ss EXCEPT ![l].policy_db = ListRemove(@, policy)], <<>>, FALSE)

\* RemoteSite.remove_all_entries(itag, l3out_name, l3out_tenant_name): the
\* requests it sends
RemoveAllEntries(target, itag, env) ==
    LET key == InventoryKey(target)
        get == Get(target.site, <<"tag", key, itag>>, <<key, 1>> \notin env.getFails)
        found == QueryByTag(env.inv, key, itag)
    IN IF ~get.ok THEN <<get>>
       ELSE <<get>> \o [k \in 1..Len(found) |->
                          Push(target.site, <<"mo", key, found[k].name>>,
                               [name |-> found[k].name, status |-> "deleted"],
                               <<key, found[k].name>> \notin env.entryFails)]

\* the loops of remove_all_entries_for_policy
RECURSIVE RemoveAllEntriesLoop(_, _, _, _, _)
RemoveAllEntriesLoop(r, policy, targets, i, env) ==
    IF i > Len(targets) THEN r
    ELSE IF GetSite(r.sites, targets[i].site) = 0
         THEN Result(r.sites, r.sent, TRUE)          \* site_obj is None
         ELSE With(Result(r.sites,
                          r.sent \o RemoveAllEntries(
                                       targets[i],
                                       IntersiteTagStr(policy.tenant, policy.app, policy.epg,
                                                       r.sites[GetLocalSite(r.sites)].name),
                                       env),
                          FALSE),
                   LAMBDA removed : RemoveAllEntriesLoop(removed, policy, targets, i + 1, env))

\* MultisiteCollector.remove_all_entries_for_policy
RemoveAllEntriesForPolicy(ss, policy, env) ==
    RemoveAllEntriesLoop(Result(ss, <<>>, FALSE), policy, PolicyTargets(policy), 1, env)

\* index of the first policy of the same scope, 0 when there is none
FindSameEpg(policies, policy) ==
    IF \E i \in 1..Len(policies) : HasSameEpg(policy, policies[i])
    THEN CHOOSE i \in 1..Len(policies) :
             HasSameEpg(policy, policies[i]) /\ \A j \in 1..(i-1) : ~HasSameEpg(policy, policies[j])
    ELSE 0

\* the loop "for new_policy in new_config.export_policies" of reload_config.
\* r is an operation result with a field returned, set when reload_config
\* returned from inside the loop.
RECURSIVE NewPoliciesLoop(_, _, _, _, _)
NewPoliciesLoop(r, old_policies, new_policies, i, env) ==
    IF i > Len(new_policies) \/ r.raised \/ r.returned THEN r
    ELSE LET l == GetLocalSite(r.sites)
             o == FindSameEpg(old_policies, new_policies[i])
         IN IF l = 0 THEN [r EXCEPT !.returned = TRUE]
            ELSE With(Then(Then(Then(Result(r.sites, r.sent, FALSE),
                                     LAMBDA ss : IF o # 0 THEN RemovePolicy(ss, l, old_policies[o])
                                                 ELSE Result(ss, <<>>, FALSE)),
                                LAMBDA ss : AddPolicy(ss, l, new_policies[i], env)),
                           LAMBDA ss : HandleExistingEndpoints(ss, l, new_policies[i], env)),
                      LAMBDA step :
                          NewPoliciesLoop([sites |-> step.sites, sent |-> step.sent,
                                           raised |-> step.raised, returned |-> FALSE],
                                          old_policies, new_policies, i + 1, env))

\* the loop "for old_policy in old_config.export_policies" of reload_config
RECURSIVE OldPoliciesLoop(_, _, _, _, _)
OldPoliciesLoop(r, old_policies, new_policies, i, env) ==
    IF i > Len(old_policies) \/ r.raised \/ r.returned THEN r
    ELSE IF FindSameEpg(new_policies, old_policies[i]) # 0
         THEN OldPoliciesLoop(r, old_policies, new_policies, i + 1, env)
         ELSE LET l == GetLocalSite(r.sites)
              IN IF l = 0 THEN [r EXCEPT !.returned = TRUE]
                 ELSE With(Then(Then(Result(r.sites, r.sent, FALSE),
                                     LAMBDA ss : RemovePolicy(ss, l, old_policies[i])),
                                LAMBDA ss : RemoveAllEntriesForPolicy(ss, old_policies[i], env)),
                           LAMBDA step :
                               OldPoliciesLoop([sites |-> step.sites, sent |-> step.sent,
                                                raised |-> step.raised, returned |-> FALSE],
                                               old_policies, new_policies, i + 1, env))

\* the strings of the model that socket.inet_aton accepts
IpAddresses ==
    { "10.1.1.1", "10.1.1.2", "10.1.1.9", "10.2.2.2", "10.2.2.9", "10.3.3.3", "10.3.3.9" }

\* ConfigObject._validate_ip_address: TRUE when no ValueError is raised
ValidateIpAddress(item) == item \in IpAddresses

\* ConfigObject._validate_boolean_string
ValidateBooleanString(item) == item \in {"True", "False"}

\* ConfigObject._validate_non_empty_string, for the strings of the model
\* (none is longer than 64)
ValidateNonEmptyString(item) == item # ""

\* SitePolicy.validate on an entry that has every keyword, all of them strings
ValidateSitePolicy(site) ==
    /\ ValidateIpAddress(site.ip_address)
    /\ ValidateBooleanString(site.local)
    /\ ValidateBooleanString(site.use_https)

\* L3OutPolicy.validate: the names of the contract, taboo and interface
\* policies it builds
ValidateL3OutPolicy(l3out) ==
    \A names \in {l3out.provides, l3out.consumes, l3out.protected_by, l3out.consumes_interface} :
        \A k \in 1..Len(names) : ValidateNonEmptyString(names[k])

\* ExportPolicy.validate, with RemoteSitePolicy.validate for its remote sites
ValidateExportPolicy(export) ==
    \A k \in 1..Len(export.remote_sites) :
        \A n \in 1..Len(export.remote_sites[k].interfaces) :
            ValidateL3OutPolicy(export.remote_sites[k].interfaces[n])

\* the test "'config' in new_config" and IntersiteConfiguration(new_config)
\* raising no ValueError
Validates(doc) ==
    /\ doc.valid
    /\ \A k \in 1..Len(doc.site_policies) : ValidateSitePolicy(doc.site_policies[k])
    /\ \A k \in 1..Len(doc.export_policies) : ValidateExportPolicy(doc.export_policies[k])

\* IntersiteConfiguration(config): the objects built from a well-formed
\* document; gen is the generation that makes the new objects' identities
IntersiteConfiguration(doc, gen) ==
    [gen |-> gen,
     site_policies |-> doc.site_policies,
     export_policies |-> [i \in 1..Len(doc.export_policies) |->
                            [id |-> <<gen, i>>,
                             tenant |-> doc.export_policies[i].tenant,
                             app |-> doc.export_policies[i].app,
                             epg |-> doc.export_policies[i].epg,
                             remote_sites |-> doc.export_policies[i].remote_sites]]]

\* reload_config from "old_config = self.config" on, for a document that
\* passed validation: [sites, config, sent, raised]
ApplyReload(ss, old_config, doc, gen, env) ==
    With(IntersiteConfiguration(doc, gen),
    LAMBDA new_config :
    With(ReloadSites(ss, old_config, new_config, gen, env),
    LAMBDA rs :
        IF rs.added
        THEN With(InitializeLocalSite(rs.sites, new_config, env),
                  LAMBDA r : [sites |-> r.sites, config |-> new_config,
                              sent |-> r.sent, raised |-> r.raised])
        ELSE With(NewPoliciesLoop([sites |-> rs.sites, sent |-> <<>>,
                                   raised |-> FALSE, returned |-> FALSE],
                                  old_config.export_policies,
                                  new_config.export_policies, 1, env),
             LAMBDA added :
             With(OldPoliciesLoop(added, old_config.export_policies,
                                  new_config.export_policies, 1, env),
             LAMBDA r : [sites |-> r.sites, config |-> old_config,
                         sent |-> r.sent, raised |-> r.raised]))))

\* mutant: the document is applied without being validated
ReloadConfigUnchecked(ss, old_config, doc, gen, env) ==
    ApplyReload(ss, old_config, doc, gen, env)

\* MultisiteCollector.reload_config with the document doc in the file:
\* [sites, config, sent, raised]
ReloadConfig(ss, old_config, doc, gen, env) ==
    IF ~Validates(doc)
    THEN [sites |-> ss, config |-> old_config, sent |-> <<>>, raised |-> FALSE]
    ELSE ApplyReload(ss, old_config, doc, gen, env)

\* the loop "for site_policy in collector.config.site_policies" of initialize_tool
RECURSIVE AddConfiguredSites(_, _, _, _, _)
AddConfiguredSites(ss, site_policies, i, gen, env) ==
    IF i > Len(site_policies) THEN ss
    ELSE With(AddSiteFromConfig(ss, <<gen, i>>, site_policies[i], env),
              LAMBDA added : AddConfiguredSites(added, site_policies, i + 1, gen, env))

\* initialize_tool(config) with a well-formed document: [sites, config, sent, raised]
InitializeTool(doc, gen, env) ==
    With(IntersiteConfiguration(doc, gen),
    LAMBDA cfg :
    With(AddConfiguredSites(<<>>, cfg.site_policies, 1, gen, env),
    LAMBDA ss :
    With(InitializeLocalSite(ss, cfg, env),
    LAMBDA r : [sites |-> r.sites, config |-> cfg, sent |-> r.sent, raised |-> r.raised])))

-----------------------------------------------------------------------------
(* The configurations, endpoints and sites the model draws its inputs from *)

L3OutPolicy(name, tenant, provides, consumes, protected_by, consumes_interface) ==
    [name |-> name, tenant |-> tenant, provides |-> provides, consumes |-> consumes,
     protected_by |-> protected_by, consumes_interface |-> consumes_interface]

RemoteSitePolicy(name, interfaces) == [name |-> name, interfaces |-> interfaces]

\* an ExportPolicy object; id is the identity of the Python object
ExportPolicy(id, tenant, app, epg, remote_sites) ==
    [id |-> id, tenant |-> tenant, app |-> app, epg |-> epg, remote_sites |-> remote_sites]

SitePolicy(name, ip_address, local) ==
    [name |-> name, ip_address |-> ip_address, username |-> "admin",
     password |-> "pw", local |-> local, use_https |-> "False"]

Out1T1 == L3OutPolicy("out1", "T1", <<"c1", "c2">>, <<"c3">>, <<"t1">>, <<"i1">>)
Out1T2 == L3OutPolicy("out1", "T2", <<"c1">>, <<>>, <<>>, <<>>)
Out2T1 == L3OutPolicy("out2", "T1", <<"c2">>, <<"c3">>, <<>>, <<>>)

\* scope (T1, A1, G1) exported to R1 through out1 of T1 and of T2, to R2 through out1 of T1
SitesG1 == << RemoteSitePolicy("R1", <<Out1T1, Out1T2>>), RemoteSitePolicy("R2", <<Out1T1>>) >>
\* scope (T1, A1, G2) exported to R1 through out1 and out2 of T1
SitesG2 == << RemoteSitePolicy("R1", <<Out1T1, Out2T1>>) >>

Macs == { <<"00:11:22:33:44:55">>, <<"66:77:88:99:AA:BB">> }
Ips == { None, "0.0.0.0", "10.0.0.5" }

\* the Endpoint objects the local site reports: scope, mac, ip, deleted flag.
\* G1 and G2 are exported scopes, G3 is not exported.
Endpoints ==
    [tenant : {"T1"}, app : {"A1"}, epg : {"G1", "G2"},
     mac : Macs, ip : Ips, deleted : BOOLEAN]
    \cup
    [tenant : {"T1"}, app : {"A1"}, epg : {"G3"},
     mac : { <<"00:11:22:33:44:55">> }, ip : Ips, deleted : BOOLEAN]

LocalName == "local"

IdleThread == [pc |-> "idle"]
NoConfig == [gen |-> 0, site_policies |-> <<>>, export_policies |-> <<>>]

-----------------------------------------------------------------------------
(* SpecBatch: the batch store of the local site's monitor under sequences   *)
(* of add_endpoint and push_to_remote_sites calls.                          *)

LocalDb == sites[GetLocalSite(sites)].db

BatchLocalSite ==
    [StartSite(NewSite(<<0, 1>>, LocalName, SiteLoginCredentials("10.1.1.1", "admin", "pw", FALSE), TRUE),
               TRUE)
       EXCEPT !.policy_db = << ExportPolicy(<<0, 1>>, "T1", "A1", "G1", SitesG1),
                               ExportPolicy(<<0, 2>>, "T1", "A1", "G2", SitesG2) >>]

BatchRemote(id, name, ip) ==
    StartSite(NewSite(id, name, SiteLoginCredentials(ip, "admin", "pw", FALSE), FALSE), TRUE)

\* the collector after initialize_tool: the local site with its two export
\* policies, and the remote sites the configuration lists (R2 may be missing)
BatchSites ==
    { <<BatchLocalSite, BatchRemote(<<0, 2>>, "R1", "10.2.2.2"), BatchRemote(<<0, 3>>, "R2", "10.3.3.3")>>,
      <<BatchLocalSite, BatchRemote(<<0, 2>>, "R1", "10.2.2.2")>> }

\* where the entries for the key mac are queued under target (a remote site
\* and an l3out policy): <<tenant index, l3out index, instance-profile index>>
QueuedEntries(db, target, mac) ==
    IF target.site \notin DOMAIN db THEN {}
    ELSE LET docs == db[target.site] IN
         UNION { UNION { { <<t, o, n>> : n \in { n \in 1..Len(docs[t].children[o].children) :
                                                    docs[t].children[o].children[n].name = mac } }
                         : o \in { o \in 1..Len(docs[t].children) :
                                     docs[t].children[o].name = target.l3out.name } }
                 : t \in { t \in 1..Len(docs) : docs[t].name = target.l3out.tenant } }

QueuedEntry(db, target, e) == db[target.site][e[1]].children[e[2]].children[e[3]]

\* the targets of the policy of the endpoint's scope, <<>> without a policy
EndpointTargets(endpoint, local_site) ==
    LET p == GetPolicyForEpg(local_site.policy_db, endpoint.tenant, endpoint.app, endpoint.epg)
    IN IF p = 0 THEN <<>> ELSE PolicyTargets(local_site.policy_db[p])

\* the indices of the endpoint's targets at which an entry for the endpoint's
\* key, queued for the endpoint's own scope, is in db
QueuedForScope(db, endpoint, local_site) ==
    LET targets == EndpointTargets(endpoint, local_site)
        tag == IntersiteTagStr(endpoint.tenant, endpoint.app, endpoint.epg, local_site.name)
    IN { i \in 1..Len(targets) :
           \E e \in QueuedEntries(db, targets[i], endpoint.mac) :
               QueuedEntry(db, targets[i], e).tag = tag }

BatchInit ==
    /\ sites \in BatchSites
    /\ config = NoConfig
    /\ configFile = NoConfig
    /\ nextId = 1
    /\ mon = IdleThread
    /\ ctl = IdleThread
    /\ events = <<>>
    /\ last = [op |-> "init"]

\* a call of EndpointHandler.add_endpoint on the local site's monitor
BatchAddEndpoint ==
    \E e \in Endpoints :
        LET l == GetLocalSite(sites) IN
        /\ sites' = [sites EXCEPT ![l].db = AddEndpoint(sites[l].db, e, sites[l])]
        /\ last' = [op |-> "add_endpoint", ep |-> e,
                    had |-> QueuedForScope(sites[l].db, e, sites[l])]
        /\ UNCHANGED <<config, configFile, nextId, mon, ctl, events>>

\* the <<site, tenant>> pairs of the tenant documents queued in db
PushKeys(db) == UNION { { <<s, db[s][k].name>> : k \in 1..Len(db[s]) } : s \in DOMAIN db }

\* a call of EndpointHandler.push_to_remote_sites on the local site's monitor
BatchFlush ==
    LET l == GetLocalSite(sites)
        db == sites[l].db
    IN \E order \in KeyOrders(DOMAIN db) :
       \E fails \in SUBSET PushKeys(db) :
          LET r == PushToRemoteSites(db, sites, order, fails) IN
          /\ sites' = [sites EXCEPT ![l].db = r.db]
          /\ last' = [op |-> "push_to_remote_sites", before |-> db, order |-> order,
                      sent |-> r.sent, raised |-> r.raised]
          /\ UNCHANGED <<config, configFile, nextId, mon, ctl, events>>

BatchNext == BatchAddEndpoint \/ BatchFlush

SpecBatch == BatchInit /\ [][BatchNext]_vars

-----------------------------------------------------------------------------
(* Claims on the batch store, checked under SpecBatch *)

OnePerName(docs) == \A i, j \in 1..Len(docs) : docs[i].name = docs[j].name => i = j

\* C5: between two flushes the queued tree of every remote site holds at most
\* one tenant document per tenant name, at most one interface entry per
\* interface name within a tenant, and at most one instance-profile entry per
\* endpoint key within an interface.
C5_OneEntryPerKey ==
    \A s \in DOMAIN LocalDb :
        /\ OnePerName(LocalDb[s])
        /\ \A t \in Range(LocalDb[s]) :
              /\ OnePerName(t.children)
              /\ \A o \in Range(t.children) : OnePerName(o.children)

\* C5 witness: add_endpoint has just queued an endpoint whose key already had
\* an entry, and some interface holds the entries of two keys
C5_Witness ==
    /\ last.op = "add_endpoint"
    /\ ~IgnoredEndpoint(last.ep)
    /\ last.had # {}
    /\ \E s \in DOMAIN LocalDb : \E t \in Range(LocalDb[s]) : \E o \in Range(t.children) :
          Len(o.children) = 2

\* the add_endpoint calls the specification lets be ignored: no address and
\* not marked deleted
NothingToSynchronize(endpoint) == endpoint.ip \in {None, "0.0.0.0"} /\ ~endpoint.deleted

\* C6: last write wins within a burst.  When add_endpoint is called for an
\* endpoint whose key already has an entry queued for the same scope, then at
\* every such target exactly one entry for the key is queued and it carries
\* the state of this call: marked deleted and without address when the
\* endpoint is deleted, the endpoint's address otherwise.
C6_LastWriteWins ==
    (last.op = "add_endpoint" /\ ~NothingToSynchronize(last.ep)) =>
        LET local == sites[GetLocalSite(sites)]
            targets == EndpointTargets(last.ep, local)
        IN \A i \in last.had :
              LET E == QueuedEntries(local.db, targets[i], last.ep.mac) IN
              /\ Cardinality(E) = 1
              /\ \A e \in E :
                    LET n == QueuedEntry(local.db, targets[i], e) IN
                    IF last.ep.deleted
                    THEN n.status = "deleted" /\ n.ip = <<>>
                    ELSE n.status = "" /\ n.ip = <<last.ep.ip, "/32">>

\* C7: after push_to_remote_sites returned or was abandoned the batch store is
\* empty, whichever remote sites the queued entries name.
C7_FlushEmptiesStore ==
    last.op = "push_to_remote_sites" => LocalDb = EmptyDb

\* the documents of a list of requests, without their outcomes
Attempts(sent) == [i \in 1..Len(sent) |-> [site |-> sent[i].site, data |-> sent[i].data]]

\* C8: a failed push does not prevent the push of any other queued tenant
\* document: a flush makes the push attempts it makes when every push
\* succeeds, and a flush that runs to its end (every queued remote site is
\* registered) makes exactly one attempt for every queued tenant document.
C8_EveryDocPushedOnce ==
    last.op = "push_to_remote_sites" =>
        /\ Attempts(last.sent) =
              Attempts(PushToRemoteSites(last.before, sites, last.order, {}).sent)
        /\ ~last.raised =>
              /\ Len(last.sent) = Cardinality(PushKeys(last.before))
              /\ \A s \in DOMAIN last.before : \A k \in 1..Len(last.before[s]) :
                    Cardinality({ i \in 1..Len(last.sent) :
                                    /\ last.sent[i].op = "push"
                                    /\ last.sent[i].site = s
                                    /\ last.sent[i].data = last.before[s][k] }) = 1

\* C8 witness: a flush in which a push failed and a later push was still made
C8_Witness ==
    /\ last.op = "push_to_remote_sites"
    /\ ~last.raised
    /\ \E i, j \in 1..Len(last.sent) :
          /\ i < j
          /\ ~last.sent[i].ok
          /\ last.sent[i].site = last.sent[j].site

-----------------------------------------------------------------------------
(* SpecVerify: verify_endpoints of the local site's monitor against the     *)
(* inventories the remote sites may hold.                                   *)

Binding(kind, name) == [kind |-> kind, name |-> name, status |-> ""]

\* a profile whose bindings are those Out1T1 grants
ProfileA(itag) ==
    [name |-> <<"00:11:22:33:44:55">>,
     children |-> << [kind |-> "l3extSubnet", name |-> <<"10.0.0.5", "/32">>, status |-> ""],
                     Binding("fvRsProv", "c1"), Binding("fvRsProv", "c2"),
                     Binding("fvRsCons", "c3"), Binding("tagInst", itag) >>]

\* a profile with bindings no policy of the model grants
ProfileB(itag) ==
    [name |-> <<"66:77:88:99:AA:BB">>,
     children |-> << Binding("fvRsProv", "c9"), Binding("fvRsProtBy", "t1"),
                     Binding("fvRsConsIf", "i9"), Binding("tagInst", itag) >>]

\* a profile that does not carry the tag
ProfileU ==
    [name |-> <<"web">>, children |-> << Binding("fvRsProv", "c9") >>]

\* what one interface of a remote site may hold
InterfaceInventories(itag) ==
    { <<>>, <<ProfileA(itag), ProfileB(itag)>>, <<ProfileU, ProfileB(itag)>> }

\* the inventories of the interfaces a policy targets
Inventories(policy, local_name) ==
    LET keys == { InventoryKey(PolicyTargets(policy)[i]) : i \in 1..Len(PolicyTargets(policy)) }
    IN [keys -> InterfaceInventories(
                   IntersiteTagStr(policy.tenant, policy.app, policy.epg, local_name))]

\* at most one failing query among those of the interfaces a policy targets
GetFailures(policy) ==
    {{}} \cup { {<<InventoryKey(PolicyTargets(policy)[i]), n>>} :
                   i \in 1..Len(PolicyTargets(policy)), n \in {1, 2} }

VerifyInit ==
    /\ sites \in BatchSites
    /\ config = NoConfig
    /\ configFile = NoConfig
    /\ nextId = 1
    /\ mon = IdleThread
    /\ ctl = IdleThread
    /\ events = <<>>
    /\ last = [op |-> "init"]

\* a call of MultisiteMonitor.verify_endpoints with a policy of the local
\* site's registry
VerifyCall ==
    LET l == GetLocalSite(sites) IN
    \E p \in 1..Len(sites[l].policy_db) :
    \E inv \in Inventories(sites[l].policy_db[p], sites[l].name) :
    \E getFails \in GetFailures(sites[l].policy_db[p]) :
    \E r \in { VerifyEndpoints(sites[l].policy_db[p], sites[l].name, sites, inv, getFails, {}) } :
        /\ last' = [op |-> "verify_endpoints", policy |-> sites[l].policy_db[p],
                    inv |-> inv, getFails |-> getFails,
                    sent |-> r.sent, raised |-> r.raised]
        /\ UNCHANGED <<sites, config, configFile, nextId, mon, ctl, events>>

VerifyNext == VerifyCall

SpecVerify == VerifyInit /\ [][VerifyNext]_vars

-----------------------------------------------------------------------------
(* Claims on verify_endpoints, checked under SpecVerify *)

\* the list of the policy's interface entry that grants bindings of a kind
AuthorizedList(l3out, kind) ==
    CASE kind = "fvRsProv" -> l3out.provides
      [] kind = "fvRsCons" -> l3out.consumes
      [] kind = "fvRsProtBy" -> l3out.protected_by
      [] kind = "fvRsConsIf" -> l3out.consumes_interface

VerifiedTag == IntersiteTagStr(last.policy.tenant, last.policy.app, last.policy.epg,
                               sites[GetLocalSite(sites)].name)

\* the pushes verify_endpoints sent for one target
PushesFor(target) ==
    { i \in 1..Len(last.sent) :
        /\ last.sent[i].op = "push"
        /\ last.sent[i].site = target.site
        /\ last.sent[i].url = L3outUrl(target.l3out) }

\* C3: verify never marks as deleted a binding the policy authorizes: in
\* every profile it pushes back, a provide/consume/protect/consume-interface
\* child whose name is anywhere in the corresponding list of the policy's
\* interface entry keeps its status.
C3_AuthorizedKept ==
    last.op = "verify_endpoints" =>
        \A t \in 1..Len(PolicyTargets(last.policy)) :
            LET target == PolicyTargets(last.policy)[t] IN
            \A i \in PushesFor(target) :
                \A k \in 1..Len(last.sent[i].data.children) :
                    LET child == last.sent[i].data.children[k] IN
                    (/\ child.kind \in BindingKinds
                     /\ child.name \in Range(AuthorizedList(target.l3out, child.kind)))
                        => child.status = ""

\* C4: reconciliation retraction.  For every interface the policy targets at
\* a registered remote site whose queries were answered, every profile there
\* that carries the scope's tag and has a provide/consume/protect/
\* consume-interface child outside the corresponding list of the interface
\* entry is pushed back to that site with every such child marked deleted.
C4_Retraction ==
    last.op = "verify_endpoints" =>
        \A t \in 1..Len(PolicyTargets(last.policy)) :
            LET target == PolicyTargets(last.policy)[t]
                key == InventoryKey(target)
                found == InventoryAt(last.inv, key)
            IN (/\ GetSite(sites, target.site) # 0
                /\ <<key, 1>> \notin last.getFails
                /\ <<key, 2>> \notin last.getFails)
               => \A e \in 1..Len(found) :
                     LET stale == { k \in 1..Len(found[e].children) :
                                      /\ found[e].children[k].kind \in BindingKinds
                                      /\ found[e].children[k].name \notin
                                            Range(AuthorizedList(target.l3out,
                                                                 found[e].children[k].kind)) }
                     IN (HasTag(found[e], VerifiedTag) /\ stale # {})
                        => \E i \in PushesFor(target) :
                              /\ last.sent[i].data.name = found[e].name
                              /\ \A k \in stale :
                                    last.sent[i].data.children[k].status = "deleted"


-----------------------------------------------------------------------------
(* SpecReload: initialize_tool, edits of the configuration file and         *)
(* reload_config on the control path.                                       *)

MaxReloads == 2

\* an "export" entry of a configuration document
ExportDoc(tenant, app, epg, remote_sites) ==
    [tenant |-> tenant, app |-> app, epg |-> epg, remote_sites |-> remote_sites]

\* a configuration document; valid tells whether it has the "config" key
ConfigDoc(site_policies, export_policies) ==
    [valid |-> TRUE, site_policies |-> site_policies, export_policies |-> export_policies]

InvalidDoc == [valid |-> FALSE, site_policies |-> <<>>, export_policies |-> <<>>]

\* an interface entry with an empty contract name
OutUnnamed == L3OutPolicy("out1", "T1", <<"">>, <<>>, <<>>, <<>>)

SiteL == SitePolicy(LocalName, "10.1.1.1", "True")
SiteL2 == SitePolicy("local2", "10.1.1.2", "True")
SiteR1 == SitePolicy("R1", "10.2.2.2", "False")
SiteR2 == SitePolicy("R2", "10.3.3.3", "False")

ExportG1 == ExportDoc("T1", "A1", "G1", SitesG2)
ExportG1Less == ExportDoc("T1", "A1", "G1", << RemoteSitePolicy("R1", <<Out1T1>>) >>)
ExportG2 == ExportDoc("T1", "A1", "G2", << RemoteSitePolicy("R1", <<Out1T2>>) >>)
ExportG2ToR2 == ExportDoc("T1", "A1", "G2", << RemoteSitePolicy("R2", <<Out1T1>>) >>)

DocBase == ConfigDoc(<<SiteL, SiteR1>>, <<ExportG1>>)
DocBoth == ConfigDoc(<<SiteL, SiteR1, SiteR2>>, <<ExportG1>>)

\* the documents the configuration file may hold
ConfigDocs ==
    { DocBase, DocBoth, InvalidDoc,
      \* the address of R1, of R2, of the local site changed
      ConfigDoc(<<SiteL, SitePolicy("R1", "10.2.2.9", "False")>>, <<ExportG1>>),
      ConfigDoc(<<SiteL, SiteR1, SitePolicy("R2", "10.3.3.9", "False")>>, <<ExportG1>>),
      ConfigDoc(<<SitePolicy(LocalName, "10.1.1.9", "True"), SiteR1>>, <<ExportG1>>),
      \* R2 renamed to R3, every other field the same
      ConfigDoc(<<SiteL, SiteR1, SitePolicy("R3", "10.3.3.3", "False")>>, <<ExportG1>>),
      \* a scope added, a scope replaced by another, a policy changed
      ConfigDoc(<<SiteL, SiteR1>>, <<ExportG1, ExportG2>>),
      ConfigDoc(<<SiteL, SiteR1>>, <<ExportG2>>),
      ConfigDoc(<<SiteL, SiteR1>>, <<ExportG1Less>>),
      \* a scope added that is exported to R2
      ConfigDoc(<<SiteL, SiteR1, SiteR2>>, <<ExportG1, ExportG2ToR2>>),
      \* no local site
      ConfigDoc(<<SiteR1>>, <<ExportG1>>),
      \* the local site under another name, with scope G2 in place of G1
      ConfigDoc(<<SiteL2, SiteR1>>, <<ExportG2>>),
      \* a second site flagged local
      ConfigDoc(<<SiteL, SiteL2, SiteR1>>, <<ExportG1, ExportG2>>),
      \* documents validation rejects: R2 added with an address that is none,
      \* R1 dropped and the local flag of the local site not a boolean string,
      \* a scope added with an empty contract name
      ConfigDoc(<<SiteL, SiteR1, SitePolicy("R2", "10.3.3.256", "False")>>, <<ExportG1>>),
      ConfigDoc(<<SitePolicy(LocalName, "10.1.1.1", "yes")>>, <<ExportG1>>),
      ConfigDoc(<<SiteL, SiteR1>>,
                <<ExportG1, ExportDoc("T1", "A1", "G2", << RemoteSitePolicy("R1", <<OutUnnamed>>) >>)>>) }

LiveEndpoints ==
    [scope \in { <<"T1", "A1", "G1">>, <<"T1", "A1", "G2">> } |->
        << [tenant |-> scope[1], app |-> scope[2], epg |-> scope[3],
            mac |-> <<"00:11:22:33:44:55">>, ip |-> "10.0.0.5", deleted |-> FALSE] >>]

NoEndpoints == [scope \in DOMAIN LiveEndpoints |-> <<>>]

TagG1 == IntersiteTagStr("T1", "A1", "G1", LocalName)

\* what the remote sites hold: R1 holds entries of scope G1 under out1 of T1
RemoteInventory ==
    [key \in { <<"R1", "T1", "out1">> } |-> <<ProfileA(TagG1), ProfileB(TagG1)>>]

\* the answers of the world outside when every request succeeds
ReloadEnv ==
    [loginFails |-> {}, live |-> LiveEndpoints, order |-> <<"R1", "R2", "R3">>,
     pushFails |-> {}, inv |-> RemoteInventory, getFails |-> {}, entryFails |-> {}]

\* and with one deviation
ReloadEnvs ==
    { ReloadEnv,
      [ReloadEnv EXCEPT !.loginFails = {"R1"}],
      [ReloadEnv EXCEPT !.loginFails = {LocalName}],
      [ReloadEnv EXCEPT !.loginFails = {"local2"}],
      [ReloadEnv EXCEPT !.live = NoEndpoints],
      [ReloadEnv EXCEPT !.pushFails = { <<"R1", "T1">> }],
      [ReloadEnv EXCEPT !.getFails = { << <<"R1", "T1", "out1">>, 1 >> }],
      [ReloadEnv EXCEPT !.entryFails = { << <<"R1", "T1", "out1">>, <<"66:77:88:99:AA:BB">> >> }] }

Crashed == [pc |-> "crashed"]

ReloadInit ==
    /\ sites = <<>>
    /\ config = NoConfig
    /\ configFile \in { DocBase, DocBoth }
    /\ nextId = 1
    /\ mon = IdleThread
    /\ ctl = IdleThread
    /\ events = <<>>
    /\ last = [op |-> "init"]

\* main: initialize_tool with the document of the configuration file
InitializeToolCall ==
    /\ last.op = "init"
    /\ \E env \in ReloadEnvs :
       \E r \in { InitializeTool(configFile, nextId, env) } :
          /\ sites' = r.sites
          /\ config' = r.config
          /\ ctl' = IF r.raised THEN Crashed ELSE ctl
          /\ last' = [op |-> "initialize_tool", sent |-> r.sent, raised |-> r.raised,
                      loaded |-> configFile]
    /\ nextId' = nextId + 1
    /\ UNCHANGED <<configFile, mon, events>>

\* the operator rewrites the configuration file
EditConfigFile ==
    /\ last.op # "init"
    /\ ctl = IdleThread
    /\ \E doc \in ConfigDocs \ {configFile} : configFile' = doc
    /\ UNCHANGED <<sites, config, nextId, mon, ctl, events, last>>

\* the command reloadconfig: MultisiteCollector.reload_config
ReloadConfigCall ==
    /\ last.op # "init"
    /\ ctl = IdleThread
    /\ nextId <= MaxReloads + 1
    /\ \E env \in ReloadEnvs :
       \E r \in { ReloadConfig(sites, config, configFile, nextId, env) } :
          /\ sites' = r.sites
          /\ config' = r.config
          /\ ctl' = IF r.raised THEN Crashed ELSE ctl
          /\ last' = [op |-> "reload_config", old_config |-> config, doc |-> configFile,
                      before |-> sites, sent |-> r.sent, raised |-> r.raised,
                      live |-> env.live, previous |-> last.loaded,
                      loaded |-> IF Validates(configFile) THEN configFile ELSE last.loaded]
    /\ nextId' = nextId + 1
    /\ UNCHANGED <<configFile, mon, events>>

ReloadNext == InitializeToolCall \/ EditConfigFile \/ ReloadConfigCall

SpecReload == ReloadInit /\ [][ReloadNext]_vars


-----------------------------------------------------------------------------
(* Claims on reload_config, checked under SpecReload *)

\* reload_config ran to its end on a document that passes validation
ReloadedValid == last.op = "reload_config" /\ Validates(last.doc) /\ ~last.raised

RegisteredNames == { sites[k].name : k \in 1..Len(sites) }

PolicyNames(site_policies) == { site_policies[k].name : k \in 1..Len(site_policies) }

\* new_site keeps the name of old_site and differs from it in the address only
AddressChanged(old_site, new_site) ==
    /\ new_site.name = old_site.name
    /\ new_site.ip_address # old_site.ip_address
    /\ [new_site EXCEPT !.ip_address = old_site.ip_address] = old_site

\* the export policies of the document are those of the local site's registry
Reseeded(doc) ==
    LET l == GetLocalSite(sites) IN
    /\ l # 0
    /\ \A i \in 1..Len(doc.export_policies) :
          LET e == doc.export_policies[i]
              p == GetPolicyForEpg(sites[l].policy_db, e.tenant, e.app, e.epg)
          IN p # 0 /\ sites[l].policy_db[p].remote_sites = e.remote_sites

\* C1: after a reload with a document in which a site keeps its name and
\* all its fields but the address, a site of that name is registered with
\* the new address, a new object, and when it is the local site the export
\* policies of the document are in its registry.
C1_SiteReplaced ==
    ReloadedValid =>
        \A i \in 1..Len(last.old_config.site_policies) :
        \A j \in 1..Len(last.doc.site_policies) :
            LET old_site == last.old_config.site_policies[i]
                new_site == last.doc.site_policies[j]
            IN AddressChanged(old_site, new_site) =>
                  /\ \E k \in 1..Len(sites) :
                        /\ sites[k].name = new_site.name
                        /\ sites[k].credentials.ip_address = new_site.ip_address
                        /\ \A b \in 1..Len(last.before) : last.before[b].id # sites[k].id
                  /\ new_site.local = "True" => Reseeded(last.doc)

\* C2: after a reload with a document that passes validation, the names of
\* the registered sites are the names of the sites of the document.
C2_SiteNamesFollowConfig ==
    ReloadedValid => RegisteredNames = PolicyNames(last.doc.site_policies)


-----------------------------------------------------------------------------
(* SpecMon: the monitor thread of the local site (MultisiteMonitor.run) and *)
(* the control path calling handle_existing_endpoints on the same monitor,  *)
(* interleaved at the calls on the monitor's EndpointHandler.  A thread at  *)
(* "add" has called add_endpoint and not returned; at "push" it is in the   *)
(* loops of push_to_remote_sites; at "clear" it is before "self.db = {}".   *)

MAX_ENDPOINTS == 1000

MaxEvents == 2

\* the endpoint events of the subscription
MonEndpoints ==
    { e \in Endpoints : /\ e.mac = <<"00:11:22:33:44:55">> /\ e.ip = "10.0.0.5"
                        /\ (e.epg # "G1" => ~e.deleted) }

\* what Endpoint.get_all_by_epg may return for a scope
LiveLists(policy) ==
    { <<>> } \cup
    { <<e>> : e \in { e \in Endpoints : /\ e.epg = policy.epg /\ ~e.deleted
                                        /\ e.ip = "10.0.0.5" } }

MonThread(pc, exit, num_eps, ep) == [pc |-> pc, exit |-> exit, num_eps |-> num_eps, ep |-> ep]

CtlThread(pc, policy, todo, ep) == [pc |-> pc, policy |-> policy, todo |-> todo, ep |-> ep]

CtlIdle == CtlThread("idle", <<>>, <<>>, <<>>)

\* the process runs: the main thread has not ended with an exception
Running == ctl.pc # "crashed"

MonInit ==
    /\ sites \in BatchSites
    /\ config = NoConfig
    /\ configFile = NoConfig
    /\ nextId = 1
    /\ mon = MonThread("loop", FALSE, 0, <<>>)
    /\ ctl = CtlIdle
    /\ events = <<>>
    /\ last = [op |-> "init"]

\* the APIC sends an endpoint event on the subscription
EndpointEvent ==
    /\ Running
    /\ nextId <= MaxEvents
    /\ \E e \in MonEndpoints : events' = Append(events, e)
    /\ nextId' = nextId + 1
    /\ UNCHANGED <<sites, config, configFile, mon, ctl, last>>

\* MultisiteMonitor.exit
MonitorExit ==
    /\ Running
    /\ ~mon.exit
    /\ mon' = [mon EXCEPT !.exit = TRUE]
    /\ last' = [op |-> "exit"]
    /\ UNCHANGED <<sites, config, configFile, nextId, ctl, events>>

\* MultisiteMonitor.run: one test of "while not self._exit" and of has_events
MonLoop ==
    /\ Running
    /\ mon.pc = "loop"
    /\ mon.exit \/ events # <<>>
    /\ mon' = IF mon.exit THEN [mon EXCEPT !.pc = "done"]
              ELSE [mon EXCEPT !.pc = "burst", !.num_eps = MAX_ENDPOINTS]
    /\ last' = [op |-> "run"]
    /\ UNCHANGED <<sites, config, configFile, nextId, ctl, events>>

\* handle_endpoint_event: the test of its while loop and get_event
MonBurst ==
    /\ Running
    /\ mon.pc = "burst"
    /\ IF events # <<>> /\ mon.num_eps # 0
       THEN /\ mon' = [mon EXCEPT !.pc = "add", !.ep = <<Head(events)>>]
            /\ events' = Tail(events)
       ELSE /\ mon' = [mon EXCEPT !.pc = "push"]
            /\ events' = events
    /\ last' = [op |-> "handle_endpoint_event"]
    /\ UNCHANGED <<sites, config, configFile, nextId, ctl>>

\* handle_endpoint_event: add_endpoint and "num_eps -= 1"
MonAddEndpoint ==
    LET l == GetLocalSite(sites) IN
    /\ Running
    /\ mon.pc = "add"
    /\ sites' = [sites EXCEPT ![l].db = AddEndpoint(sites[l].db, mon.ep[1], sites[l])]
    /\ mon' = [mon EXCEPT !.pc = "burst", !.ep = <<>>, !.num_eps = @ - 1]
    /\ last' = [op |-> "add_endpoint", thread |-> "monitor"]
    /\ UNCHANGED <<config, configFile, nextId, ctl, events>>

\* handle_endpoint_event: the loops of push_to_remote_sites.  The assertion
\* on an unregistered site ends the thread.
MonPush ==
    LET l == GetLocalSite(sites)
        db == sites[l].db
    IN /\ Running
       /\ mon.pc = "push"
       /\ \E order \in KeyOrders(DOMAIN db) :
          \E fails \in { {}, PushKeys(db) } :
             LET r == PushToRemoteSites(db, sites, order, fails) IN
             /\ mon' = [mon EXCEPT !.pc = IF r.raised THEN "dead" ELSE "clear"]
             /\ last' = [op |-> "push_to_remote_sites", thread |-> "monitor",
                         sent |-> r.sent, raised |-> r.raised]
       /\ UNCHANGED <<sites, config, configFile, nextId, ctl, events>>

\* handle_endpoint_event: "self.db = {}" of push_to_remote_sites
MonClear ==
    LET l == GetLocalSite(sites) IN
    /\ Running
    /\ mon.pc = "clear"
    /\ sites' = [sites EXCEPT ![l].db = EmptyDb]
    /\ mon' = [mon EXCEPT !.pc = "loop"]
    /\ last' = [op |-> "clear", thread |-> "monitor"]
    /\ UNCHANGED <<config, configFile, nextId, ctl, events>>


\* the control path calls handle_existing_endpoints(policy) on the monitor
\* (add_policy, reload_config): Endpoint.get_all_by_epg
CtlHandleExistingEndpoints ==
    LET l == GetLocalSite(sites) IN
    /\ ctl.pc = "idle"
    /\ \E p \in 1..Len(sites[l].policy_db) :
       \E endpoints \in LiveLists(sites[l].policy_db[p]) :
          ctl' = CtlThread("seed", <<sites[l].policy_db[p]>>, endpoints, <<>>)
    /\ last' = [op |-> "handle_existing_endpoints"]
    /\ UNCHANGED <<sites, config, configFile, nextId, mon, events>>

\* handle_existing_endpoints: one turn of "for endpoint in endpoints"
CtlSeed ==
    /\ ctl.pc = "seed"
    /\ ctl' = IF ctl.todo # <<>>
              THEN [ctl EXCEPT !.pc = "add", !.ep = <<Head(ctl.todo)>>, !.todo = Tail(ctl.todo)]
              ELSE [ctl EXCEPT !.pc = "push"]
    /\ last' = [op |-> "handle_existing_endpoints"]
    /\ UNCHANGED <<sites, config, configFile, nextId, mon, events>>

\* handle_existing_endpoints: add_endpoint
CtlAddEndpoint ==
    LET l == GetLocalSite(sites) IN
    /\ ctl.pc = "add"
    /\ sites' = [sites EXCEPT ![l].db = AddEndpoint(sites[l].db, ctl.ep[1], sites[l])]
    /\ ctl' = [ctl EXCEPT !.pc = "seed", !.ep = <<>>]
    /\ last' = [op |-> "add_endpoint", thread |-> "control"]
    /\ UNCHANGED <<config, configFile, nextId, mon, events>>

\* handle_existing_endpoints: the loops of push_to_remote_sites
CtlPush ==
    LET l == GetLocalSite(sites)
        db == sites[l].db
    IN /\ ctl.pc = "push"
       /\ \E order \in KeyOrders(DOMAIN db) :
          \E fails \in { {}, PushKeys(db) } :
             LET r == PushToRemoteSites(db, sites, order, fails) IN
             /\ ctl' = IF r.raised THEN [ctl EXCEPT !.pc = "crashed"]
                       ELSE [ctl EXCEPT !.pc = "clear"]
             /\ last' = [op |-> "push_to_remote_sites", thread |-> "control",
                         sent |-> r.sent, raised |-> r.raised]
       /\ UNCHANGED <<sites, config, configFile, nextId, mon, events>>

\* handle_existing_endpoints: "self.db = {}" of push_to_remote_sites
CtlClear ==
    LET l == GetLocalSite(sites) IN
    /\ ctl.pc = "clear"
    /\ sites' = [sites EXCEPT ![l].db = EmptyDb]
    /\ ctl' = [ctl EXCEPT !.pc = "verify"]
    /\ last' = [op |-> "clear", thread |-> "control"]
    /\ UNCHANGED <<config, configFile, nextId, mon, events>>

\* handle_existing_endpoints: verify_endpoints(policy)
CtlVerify ==
    LET l == GetLocalSite(sites) IN
    /\ ctl.pc = "verify"
    /\ \E getFails \in GetFailures(ctl.policy[1]) :
       \E r \in { VerifyEndpoints(ctl.policy[1], sites[l].name, sites, RemoteInventory,
                                  getFails, {}) } :
          /\ ctl' = IF r.raised THEN [CtlIdle EXCEPT !.pc = "crashed"] ELSE CtlIdle
          /\ last' = [op |-> "verify_endpoints", sent |-> r.sent, raised |-> r.raised]
    /\ UNCHANGED <<sites, config, configFile, nextId, mon, events>>

\* the control path removes a remote site (delete_site of a reload)
CtlDeleteSite ==
    /\ ctl.pc = "idle"
    /\ \E k \in 1..Len(sites) :
          /\ ~sites[k].local
          /\ sites' = DeleteSite(sites, sites[k].name)
    /\ last' = [op |-> "delete_site"]
    /\ UNCHANGED <<config, configFile, nextId, mon, ctl, events>>

MonNext ==
    \/ EndpointEvent \/ MonitorExit
    \/ MonLoop \/ MonBurst \/ MonAddEndpoint \/ MonPush \/ MonClear
    \/ CtlHandleExistingEndpoints \/ CtlSeed \/ CtlAddEndpoint \/ CtlPush \/ CtlClear
    \/ CtlVerify \/ CtlDeleteSite

SpecMon == MonInit /\ [][MonNext]_vars

-----------------------------------------------------------------------------
(* Claims on the monitor thread, checked under SpecMon *)

\* the thread is inside add_endpoint or push_to_remote_sites
InStore(thread) == thread.pc \in {"add", "push", "clear"}

\* C9: the run loop of the monitor has ended only when the stop flag is
\* set: no failed push, no event for a policy naming an unregistered site and
\* no removal of a site ends it while the flag is false.
C9_LoopEndsOnlyOnStop == mon.pc \in {"done", "dead"} => mon.exit

\* C10: the control path and the monitor thread are never both inside
\* add_endpoint or push_to_remote_sites on the store of the local site's
\* monitor.
C10_Serialized == ~(InStore(ctl) /\ InStore(mon))


-----------------------------------------------------------------------------
(* Further claims on reload_config, checked under SpecReload *)

\* C11: a reload with a document that validation rejects leaves the
\* registered sites with their policy registries and stores, and the stored
\* configuration, as they were, and sends no request.
C11_RejectedReloadChangesNothing ==
    (last.op = "reload_config" /\ ~Validates(last.doc)) =>
        /\ sites = last.before
        /\ config = last.old_config
        /\ last.sent = <<>>
        /\ ~last.raised

\* a rejected document that names other sites than the stored configuration
C11_Witness ==
    /\ last.op = "reload_config"
    /\ last.doc.valid /\ ~Validates(last.doc)
    /\ PolicyNames(last.doc.site_policies) # PolicyNames(last.old_config.site_policies)
    /\ sites = last.before


\* the policy registered for a scope at the local site of ss: <<policy>>, or
\* <<>> when there is no local site or no policy of that scope
RegisteredPolicy(ss, tenant, app, epg) ==
    LET l == GetLocalSite(ss)
        p == IF l = 0 THEN 0 ELSE GetPolicyForEpg(ss[l].policy_db, tenant, app, epg)
    IN IF p = 0 THEN <<>> ELSE <<ss[l].policy_db[p]>>

\* the listing of the live endpoints of a scope is among the requests
Seeded(sent, tenant, app, epg) ==
    \E k \in 1..Len(sent) : sent[k].url = <<"endpoints", tenant, app, epg>>

\* the local site object is the one registered before the reload
LocalSiteKept ==
    /\ GetLocalSite(sites) # 0 /\ GetLocalSite(last.before) # 0
    /\ sites[GetLocalSite(sites)].id = last.before[GetLocalSite(last.before)].id

\* C12: after a reload that keeps the local site, a scope that has an export
\* policy in the old and in the new configuration keeps the policy object
\* registered before the reload and is not seeded again.
C12_SameScopeLeftAlone ==
    (ReloadedValid /\ LocalSiteKept) =>
        \A i \in 1..Len(last.old_config.export_policies) :
        \A j \in 1..Len(last.doc.export_policies) :
            LET old_policy == last.old_config.export_policies[i]
                new_policy == last.doc.export_policies[j]
            IN HasSameEpg(old_policy, new_policy) =>
                  /\ RegisteredPolicy(sites, old_policy.tenant, old_policy.app, old_policy.epg)
                       = RegisteredPolicy(last.before, old_policy.tenant, old_policy.app,
                                          old_policy.epg)
                  /\ ~Seeded(last.sent, old_policy.tenant, old_policy.app, old_policy.epg)


\* the export policies of the configuration in force before the reload (the
\* last document that passed validation) whose scope has no policy in the
\* document of the reload
RemovedPolicies ==
    { p \in Range(last.previous.export_policies) :
        FindSameEpg(last.doc.export_policies, p) = 0 }

\* the query by tag of an interface was sent and answered
Queried(sent, target, itag) ==
    \E k \in 1..Len(sent) :
        /\ sent[k].op = "get" /\ sent[k].site = target.site
        /\ sent[k].url = <<"tag", InventoryKey(target), itag>> /\ sent[k].ok

QueryFailed(sent, target, itag) ==
    \E k \in 1..Len(sent) :
        /\ sent[k].op = "get" /\ sent[k].site = target.site
        /\ sent[k].url = <<"tag", InventoryKey(target), itag>> /\ ~sent[k].ok

\* a push marking the instance profile of that name deleted was sent to the
\* interface
PurgePushed(sent, target, name) ==
    \E k \in 1..Len(sent) :
        /\ sent[k].op = "push" /\ sent[k].site = target.site
        /\ sent[k].url = <<"mo", InventoryKey(target), name>>
        /\ sent[k].data = [name |-> name, status |-> "deleted"]

\* reload_config ran on a document that passes validation, to its end or
\* to an exception
ReloadAccepted == last.op = "reload_config" /\ Validates(last.doc)

\* C13: after a reload that keeps the local site, an export policy of the
\* old configuration whose scope is not in the new configuration is no
\* longer registered, and at every interface it targeted, unless the query
\* there was answered not ok, every instance profile carrying the tag of the
\* scope and the local site has been sent a push with status deleted.
C13_RemovedPolicyPurged ==
    (ReloadAccepted /\ LocalSiteKept) =>
        \A p \in RemovedPolicies :
            /\ RegisteredPolicy(sites, p.tenant, p.app, p.epg) = <<>>
            /\ \A t \in 1..Len(PolicyTargets(p)) :
                  LET target == PolicyTargets(p)[t]
                      itag == IntersiteTagStr(p.tenant, p.app, p.epg,
                                              sites[GetLocalSite(sites)].name)
                      tagged == QueryByTag(RemoteInventory, InventoryKey(target), itag)
                  IN QueryFailed(last.sent, target, itag)
                     \/ /\ Queried(last.sent, target, itag)
                        /\ \A k \in 1..Len(tagged) : PurgePushed(last.sent, target, tagged[k].name)


\* the export policies of the document of the reload whose scope has no
\* policy in the configuration in force before the reload
AddedPolicies ==
    { p \in Range(last.doc.export_policies) :
        FindSameEpg(last.previous.export_policies, p) = 0 }

\* a push of a tenant document to the site of the target that holds, under
\* the interface of the target, the entry of the endpoint with its address
EndpointPushed(sent, target, endpoint) ==
    \E k \in 1..Len(sent) :
        /\ sent[k].op = "push" /\ sent[k].site = target.site
        /\ sent[k].url = <<"tenant">>
        /\ sent[k].data.name = target.l3out.tenant
        /\ \E o \in 1..Len(sent[k].data.children) :
              /\ sent[k].data.children[o].name = target.l3out.name
              /\ \E e \in 1..Len(sent[k].data.children[o].children) :
                    /\ sent[k].data.children[o].children[e].name = endpoint.mac
                    /\ sent[k].data.children[o].children[e].ip = <<endpoint.ip, "/32">>

\* C14: after a reload that keeps the local site, an export policy of the
\* new configuration whose scope had no policy in the old configuration is
\* registered at the local site, and every endpoint live in its scope has
\* been pushed to every site and interface the policy targets, whether the
\* site was registered before the reload or added by it.
C14_AddedPolicySeeded ==
    (ReloadAccepted /\ LocalSiteKept) =>
        \A p \in AddedPolicies :
            /\ RegisteredPolicy(sites, p.tenant, p.app, p.epg) # <<>>
            /\ RegisteredPolicy(sites, p.tenant, p.app, p.epg)[1].remote_sites = p.remote_sites
            /\ \A t \in 1..Len(PolicyTargets(p)) :
               \A e \in 1..Len(last.live[<<p.tenant, p.app, p.epg>>]) :
                  EndpointPushed(last.sent, PolicyTargets(p)[t],
                                 last.live[<<p.tenant, p.app, p.epg>>][e])


\* the sites flagged local that the reload added: those of the registry that
\* were not in the registry before
AddedLocalSites ==
    { k \in 1..Len(sites) :
        /\ sites[k].local
        /\ \A b \in 1..Len(last.before) : last.before[b].id # sites[k].id }

\* a query by that tag is among the requests
TagQueried(sent, itag) ==
    \E k \in 1..Len(sent) : sent[k].url[1] = "tag" /\ sent[k].url[3] = itag

\* C15: after a reload whose site diff added a local site, a policy of the
\* old configuration whose scope is not in the new one is still in the
\* registry of every local site that was kept and no query by its tag was
\* sent to purge it, and every export policy of the new configuration is in
\* the registry of the added local site and its scope was seeded.
C15_LocalSiteAddedReseedsAll ==
    (ReloadAccepted /\ AddedLocalSites # {}) =>
        /\ \A p \in RemovedPolicies :
              /\ \A k \in 1..Len(sites) : \A b \in 1..Len(last.before) :
                    (sites[k].local /\ sites[k].id = last.before[b].id)
                    => \A o \in 1..Len(last.before[b].policy_db) :
                          HasSameEpg(last.before[b].policy_db[o], p)
                          => last.before[b].policy_db[o] \in Range(sites[k].policy_db)
              /\ \A b \in 1..Len(last.before) :
                    last.before[b].local =>
                       ~TagQueried(last.sent, IntersiteTagStr(p.tenant, p.app, p.epg,
                                                              last.before[b].name))
        /\ \A k \in AddedLocalSites : \A i \in 1..Len(last.doc.export_policies) :
              LET e == last.doc.export_policies[i]
                  p == GetPolicyForEpg(sites[k].policy_db, e.tenant, e.app, e.epg)
              IN /\ p # 0
                 /\ sites[k].policy_db[p].remote_sites = e.remote_sites
                 /\ Seeded(last.sent, e.tenant, e.app, e.epg)


\* the registered sites that are local sites
LocalSites(ss) == { k \in 1..Len(ss) : ss[k].local }

\* C16: in every state of the collector at most one registered site is a
\* local site.
C16_AtMostOneLocalSite == Cardinality(LocalSites(sites)) <= 1


-----------------------------------------------------------------------------
(* Further claims on the batch store, checked under SpecBatch *)

\* the local site has no export policy for the scope
NoPolicyFor(ss, tenant, app, epg) ==
    GetPolicyForEpg(ss[GetLocalSite(ss)].policy_db, tenant, app, epg) = 0

\* the tags of the instance-profile entries of the tenant documents pushed
PushedTags(sent) ==
    UNION { UNION { { sent[k].data.children[o].children[e].tag :
                        e \in 1..Len(sent[k].data.children[o].children) }
                    : o \in 1..Len(sent[k].data.children) }
            : k \in { k \in 1..Len(sent) : sent[k].url = <<"tenant">> } }

\* a step of add_endpoint for an endpoint of a scope without a policy leaves
\* the batch store as it was
UnexportedStep ==
    (last'.op = "add_endpoint"
     /\ NoPolicyFor(sites, last'.ep.tenant, last'.ep.app, last'.ep.epg))
    => LocalDb' = LocalDb

\* no entry pushed carries the tag of a scope without a policy
UnexportedNeverPushed ==
    last.op = "push_to_remote_sites" =>
        \A tag \in PushedTags(last.sent) : ~NoPolicyFor(sites, tag[2], tag[3], tag[4])

\* C17: add_endpoint for an endpoint whose scope has no export policy at the
\* local site leaves the batch store unchanged, and no entry of such a scope
\* is in any tenant document pushed to a remote site.
C17_UnexportedScopeNotQueued == [][UnexportedStep /\ UnexportedNeverPushed']_vars

\* an endpoint of the unexported scope G3, with an address, was handed to
\* add_endpoint while entries of other scopes were queued
C17_Witness ==
    /\ last.op = "add_endpoint"
    /\ last.ep.epg = "G3" /\ ~IgnoredEndpoint(last.ep)
    /\ LocalDb # EmptyDb


-----------------------------------------------------------------------------
(* Further claims on verify_endpoints, checked under SpecVerify *)

\* C18: in a verify of a policy whose target sites are all registered, a
\* query answered not ok at one interface does not keep verify from the
\* others: the query by tag of every interface whose own queries are
\* answered is sent.
C18_FailureAbandonsOnlyOne ==
    (/\ last.op = "verify_endpoints"
     /\ \A u \in 1..Len(PolicyTargets(last.policy)) :
           GetSite(sites, PolicyTargets(last.policy)[u].site) # 0)
    => \A t \in 1..Len(PolicyTargets(last.policy)) :
          LET target == PolicyTargets(last.policy)[t]
              key == InventoryKey(target)
          IN (<<key, 1>> \notin last.getFails /\ <<key, 2>> \notin last.getFails)
             => Queried(last.sent, target, VerifiedTag)


-----------------------------------------------------------------------------
(* SpecTag: IntersiteTag.__str__ and IntersiteTag.fromstring on strings     *)
(* taken character by character.  A string is the sequence of its          *)
(* characters; the strings of the model are of one line.                    *)

MaxParts == 6

Colon == ":"

\* the literal 'isite'
Isite == <<"i", "s", "i", "t", "e">>

\* an IntersiteTag object
IntersiteTag(tenant_name, app_name, epg_name, remote_site) ==
    [tenant_name |-> tenant_name, app_name |-> app_name, epg_name |-> epg_name,
     remote_site |-> remote_site]

\* mutant: no delimiter between the last two fields
StrUndelimited(tag) ==
    Isite \o <<Colon>> \o tag.tenant_name \o <<Colon>> \o tag.app_name \o <<Colon>>
          \o tag.epg_name \o tag.remote_site

\* IntersiteTag.__str__
str(tag) ==
    Isite \o <<Colon>> \o tag.tenant_name \o <<Colon>> \o tag.app_name \o <<Colon>>
          \o tag.epg_name \o <<Colon>> \o tag.remote_site

\* the number of ':' in a string
RECURSIVE CountColons(_)
CountColons(text) ==
    IF text = <<>> THEN 0
    ELSE (IF Head(text) = Colon THEN 1 ELSE 0) + CountColons(Tail(text))

\* IntersiteTag.is_intersite_tag: re.match(r'isite:.*:.*:.*:.*', tag) finds a
\* match when the string starts with 'isite:' and three more ':' follow
is_intersite_tag(text) ==
    /\ Len(text) >= Len(Isite) + 1
    /\ SubSeq(text, 1, Len(Isite) + 1) = Isite \o <<Colon>>
    /\ CountColons(SubSeq(text, Len(Isite) + 2, Len(text))) >= 3

\* tag.split(':'): the list of the fields between the ':'
RECURSIVE SplitLoop(_, _, _)
SplitLoop(text, field, fields) ==
    IF text = <<>> THEN Append(fields, field)
    ELSE IF Head(text) = Colon THEN SplitLoop(Tail(text), <<>>, Append(fields, field))
         ELSE SplitLoop(Tail(text), Append(field, Head(text)), fields)

split(text) == SplitLoop(text, <<>>, <<>>)

\* IntersiteTag.fromstring(tag): [raised, tag], tag <<>> for None and
\* <<t>> for the IntersiteTag t.  optimized tells that the interpreter runs
\* with -O, which drops the assert statement.
fromstring(text, optimized) ==
    IF ~is_intersite_tag(text)
    THEN IF optimized THEN [raised |-> FALSE, tag |-> <<>>]
         ELSE [raised |-> TRUE, tag |-> <<>>]      \* assert cls.is_intersite_tag(tag)
    ELSE LET tag_data == split(text)
         IN [raised |-> FALSE,
             tag |-> << IntersiteTag(tag_data[2], tag_data[3], tag_data[4], tag_data[5]) >>]

\* names: non-empty, without ':'
TagNames == { <<"a">>, <<"b">>, <<"a", "b">>, Isite }

TagTuples ==
    { IntersiteTag(t, a, e, r) : t \in TagNames, a \in TagNames, e \in TagNames, r \in TagNames }

\* parts joined with ':'
RECURSIVE Join(_)
Join(parts) ==
    IF Len(parts) = 0 THEN <<>>
    ELSE IF Len(parts) = 1 THEN parts[1]
    ELSE parts[1] \o <<Colon>> \o Join(Tail(parts))

\* the strings handed to fromstring: up to MaxParts parts, each empty, a
\* name or 'isite', joined with ':'
TagTexts ==
    UNION { { Join(parts) : parts \in [1..n -> { <<>>, <<"a">>, Isite }] } : n \in 1..MaxParts }

TagInit ==
    /\ sites = <<>>
    /\ config = NoConfig
    /\ configFile = NoConfig
    /\ nextId = 1
    /\ mon = IdleThread
    /\ ctl = IdleThread
    /\ events \in { <<[kind |-> "tag", tag |-> t, optimized |-> o]>> :
                      t \in TagTuples, o \in BOOLEAN }
               \cup { <<[kind |-> "text", text |-> x, optimized |-> o]>> :
                      x \in TagTexts, o \in BOOLEAN }
    /\ last = [op |-> "init"]

\* str(tag) and fromstring of the string
StrCall ==
    /\ last.op = "init"
    /\ events[1].kind = "tag"
    /\ last' = [op |-> "str", tag |-> events[1].tag, text |-> str(events[1].tag),
                parsed |-> fromstring(str(events[1].tag), events[1].optimized)]
    /\ UNCHANGED <<sites, config, configFile, nextId, mon, ctl, events>>

\* fromstring of a string
FromStringCall ==
    /\ last.op = "init"
    /\ events[1].kind = "text"
    /\ last' = [op |-> "fromstring", text |-> events[1].text,
                optimized |-> events[1].optimized,
                parsed |-> fromstring(events[1].text, events[1].optimized)]
    /\ UNCHANGED <<sites, config, configFile, nextId, mon, ctl, events>>

TagNext == StrCall \/ FromStringCall

SpecTag == TagInit /\ [][TagNext]_vars

-----------------------------------------------------------------------------
(* Claims on the tag strings, checked under SpecTag *)

\* C19: for a tag of four non-empty names without ':', fromstring of its
\* string gives a tag of the same four fields, and no other such tag has the
\* same string.
C19_TagRoundTrip ==
    last.op = "str" =>
        /\ ~last.parsed.raised
        /\ last.parsed.tag = <<last.tag>>
        /\ \A u \in TagTuples : str(u) = last.text => u = last.tag

\* a tag with fields of different lengths and a field that reads 'isite'
C19_Witness ==
    /\ last.op = "str"
    /\ last.tag = IntersiteTag(<<"a">>, <<"a", "b">>, Isite, <<"b">>)
    /\ last.parsed.tag = <<last.tag>>

\* the grammar of the claim: 'isite' and exactly four non-empty fields
TagGrammar(text) ==
    LET fields == split(text) IN
    /\ Len(fields) = 5
    /\ fields[1] = Isite
    /\ \A k \in 2..5 : fields[k] # <<>>

\* C20: fromstring gives a tag exactly for the strings of the grammar, and
\* for every other string gives None without raising.
C20_ParseAcceptsGrammar ==
    last.op = "fromstring" =>
        /\ ~last.parsed.raised
        /\ (last.parsed.tag # <<>>) <=> TagGrammar(last.text)


-----------------------------------------------------------------------------
(* SpecSeed: MultisiteMonitor.handle_existing_endpoints of the local site's *)
(* monitor, called with a policy of the registry, against the endpoints the *)
(* local APIC lists for the scope.                                          *)

\* the endpoint has an address
HasAddress(endpoint) == endpoint.ip # None /\ endpoint.ip # "0.0.0.0"

\* what Endpoint.get_all_by_epg may list for the scope of a policy: up to
\* two endpoints, not deleted, of different keys
SeedLists(policy) ==
    LET live == { e \in Endpoints : /\ e.tenant = policy.tenant /\ e.app = policy.app
                                    /\ e.epg = policy.epg /\ ~e.deleted }
    IN { <<>> } \cup { <<e>> : e \in live }
       \cup { pair \in live \X live : pair[1].mac # pair[2].mac }

SeedInit ==
    /\ sites \in BatchSites
    /\ config = NoConfig
    /\ configFile = NoConfig
    /\ nextId = 1
    /\ mon = IdleThread
    /\ ctl = IdleThread
    /\ events = <<>>
    /\ last = [op |-> "init"]

\* a call of handle_existing_endpoints with a policy of the registry
SeedCall ==
    LET l == GetLocalSite(sites) IN
    \E p \in 1..Len(sites[l].policy_db) :
    \E live \in SeedLists(sites[l].policy_db[p]) :
    \E pushFails \in { {}, { <<"R1", "T1">> } } :
        LET policy == sites[l].policy_db[p]
            env == [ReloadEnv EXCEPT !.live = [scope \in DOMAIN LiveEndpoints |->
                                                 IF scope = <<policy.tenant, policy.app, policy.epg>>
                                                 THEN live ELSE <<>>],
                                     !.pushFails = pushFails]
        IN \E r \in { HandleExistingEndpoints(sites, l, policy, env) } :
              /\ sites' = r.sites
              /\ last' = [op |-> "handle_existing_endpoints", policy |-> policy,
                          live |-> live, pushFails |-> pushFails,
                          sent |-> r.sent, raised |-> r.raised]
              /\ UNCHANGED <<config, configFile, nextId, mon, ctl, events>>

SeedNext == SeedCall

SpecSeed == SeedInit /\ [][SeedNext]_vars

-----------------------------------------------------------------------------
(* Claims on handle_existing_endpoints, checked under SpecSeed *)

\* the instance-profile entries keyed mac under the interface of the target
\* in the tenant documents pushed to the site of the target
PushedEntries(sent, target, mac) ==
    LET all == UNION { UNION { { <<k, o, e>> : e \in 1..Len(sent[k].data.children[o].children) }
                               : o \in 1..Len(sent[k].data.children) }
                       : k \in { k \in 1..Len(sent) : /\ sent[k].op = "push"
                                                      /\ sent[k].url = <<"tenant">>
                                                      /\ sent[k].site = target.site } }
    IN { x \in all :
           /\ sent[x[1]].data.name = target.l3out.tenant
           /\ sent[x[1]].data.children[x[2]].name = target.l3out.name
           /\ sent[x[1]].data.children[x[2]].children[x[3]].name = mac }

\* C21: after handle_existing_endpoints(policy) that ran to its end with
\* every push answered ok, for every listed endpoint with an address and
\* every target of the policy, the site of the target was pushed exactly one
\* instance-profile entry keyed by the endpoint under the interface, and it
\* carries the address with /32, the tag of the scope and the local site,
\* and the bindings of the interface entry of the policy.
C21_SeedingResult ==
    (last.op = "handle_existing_endpoints" /\ ~last.raised /\ last.pushFails = {}) =>
        \A i \in 1..Len(last.live) : \A t \in 1..Len(PolicyTargets(last.policy)) :
            LET endpoint == last.live[i]
                target == PolicyTargets(last.policy)[t]
                pushed == PushedEntries(last.sent, target, endpoint.mac)
            IN HasAddress(endpoint) =>
                  /\ Cardinality(pushed) = 1
                  /\ \A x \in pushed :
                        last.sent[x[1]].data.children[x[2]].children[x[3]] =
                           [name   |-> endpoint.mac,
                            status |-> "",
                            ip     |-> <<endpoint.ip, "/32">>,
                            tag    |-> <<"isite", last.policy.tenant, last.policy.app,
                                          last.policy.epg, LocalName>>,
                            prov   |-> target.l3out.provides,
                            cons   |-> target.l3out.consumes,
                            prot   |-> target.l3out.protected_by,
                            consif |-> target.l3out.consumes_interface]

\* two endpoints with an address were listed for a policy with several
\* targets, and pushes were sent
C21_Witness ==
    /\ last.op = "handle_existing_endpoints" /\ ~last.raised /\ last.pushFails = {}
    /\ Len(last.live) = 2 /\ HasAddress(last.live[1]) /\ HasAddress(last.live[2])
    /\ Len(PolicyTargets(last.policy)) > 1
    /\ \E k \in 1..Len(last.sent) : last.sent[k].op = "push"


-----------------------------------------------------------------------------
(* SpecRemoval: the monitor thread with the removal of an endpoint of scope *)
(* G1 pending on its subscription, and the control path seeding policies;   *)
(* every site the policies name is registered.  The monitor thread is       *)
(* scheduled: a step of MultisiteMonitor.run that can be taken is taken.    *)

\* the events that tell the removal of the endpoint: its address field may
\* hold the address, nothing, or the placeholder
RemovalEvents ==
    { e \in Endpoints : e.epg = "G1" /\ e.mac = <<"00:11:22:33:44:55">> /\ e.deleted }

RemovalInit ==
    /\ sites = <<BatchLocalSite, BatchRemote(<<0, 2>>, "R1", "10.2.2.2"),
                 BatchRemote(<<0, 3>>, "R2", "10.3.3.3")>>
    /\ config = NoConfig
    /\ configFile = NoConfig
    /\ nextId = MaxEvents + 1
    /\ mon = MonThread("loop", FALSE, 0, <<>>)
    /\ ctl = CtlIdle
    /\ events \in { <<e>> : e \in RemovalEvents }
    /\ last = [op |-> "init"]

\* a step of the monitor thread
MonStep == MonLoop \/ MonBurst \/ MonAddEndpoint \/ MonPush \/ MonClear

\* a step of the control path inside handle_existing_endpoints
CtlStep ==
    CtlHandleExistingEndpoints \/ CtlSeed \/ CtlAddEndpoint \/ CtlPush \/ CtlClear \/ CtlVerify

RemovalNext == MonStep \/ CtlStep

SpecRemoval == RemovalInit /\ [][RemovalNext]_vars /\ WF_vars(MonStep)

\* the last event of the subscription tells that an endpoint of an exported
\* scope was removed, and no event follows it
RemovalPending ==
    /\ nextId > MaxEvents
    /\ events # <<>>
    /\ events[Len(events)].deleted
    /\ ~NoPolicyFor(sites, events[Len(events)].tenant, events[Len(events)].app,
                    events[Len(events)].epg)

\* a push to the site of the target marks the entry keyed mac under the
\* interface of the target deleted
DeletionPushed(sent, target, mac) ==
    \E x \in PushedEntries(sent, target, mac) :
        sent[x[1]].data.children[x[2]].children[x[3]].status = "deleted"

\* the removal of the endpoint of key mac of the scope G1 reached every
\* target of the policy of the scope
RemovalDelivered ==
    /\ last.op = "push_to_remote_sites"
    /\ \A t \in 1..Len(SitesTargets(SitesG1)) :
          DeletionPushed(last.sent, SitesTargets(SitesG1)[t], <<"00:11:22:33:44:55">>)

\* the monitor stopped, or a push was answered not ok
RemovalExcused ==
    \/ mon.exit \/ mon.pc \in {"done", "dead"} \/ ~Running
    \/ /\ last.op = "push_to_remote_sites"
       /\ \E k \in 1..Len(last.sent) : ~last.sent[k].ok

\* C22: when the removal of an endpoint of an exported scope is the last
\* event pending, then, unless the monitor stops or a push is answered not
\* ok, eventually a push marks the entry of the endpoint deleted at every
\* site and interface the policy of the scope targets.
C22_EventualRemoval == RemovalPending ~> (RemovalDelivered \/ RemovalExcused)


-----------------------------------------------------------------------------
(* SpecSite: add_site and delete_site on the collector, with the monitor    *)
(* threads of the process.  Here mon is the list of the MultisiteMonitor    *)
(* threads that were started and whose run loop has not ended: site is the  *)
(* id of the LocalSite that started the thread, exit its _exit flag.        *)

MaxSiteOps == 3

SiteNames == { LocalName, "local2", "R1" }

\* LocalSite.start: "self.monitor = MultisiteMonitor(...); self.monitor.start()"
\* when the login response is ok: the threads after start() of the site
StartMonitor(threads, site) ==
    IF site.monitor THEN Append(threads, [site |-> site.id, exit |-> FALSE]) ELSE threads

\* the threads after Site.shutdown() of the sites of that name: shutdown is
\* "pass" and LocalSite does not override it
Shutdown(threads, ss, name) == threads

SiteInit ==
    /\ sites = <<>>
    /\ config = NoConfig
    /\ configFile = NoConfig
    /\ nextId = 1
    /\ mon = <<>>
    /\ ctl = IdleThread
    /\ events = <<>>
    /\ last = [op |-> "init"]

\* MultisiteCollector.add_site(name, credentials, local)
AddSiteCall ==
    /\ nextId <= MaxSiteOps
    /\ \E name \in SiteNames : \E local \in BOOLEAN : \E login_ok \in BOOLEAN :
       \E ss \in { AddSite(sites, <<nextId, 1>>, name,
                           SiteLoginCredentials("10.1.1.1", "admin", "pw", FALSE),
                           local, login_ok) } :
          /\ sites' = ss
          /\ mon' = StartMonitor(Shutdown(mon, sites, name), ss[Len(ss)])
          /\ last' = [op |-> "add_site", name |-> name, local |-> local,
                      login_ok |-> login_ok]
    /\ nextId' = nextId + 1
    /\ UNCHANGED <<config, configFile, ctl, events>>

\* MultisiteCollector.delete_site(name)
DeleteSiteCall ==
    /\ nextId <= MaxSiteOps
    /\ \E name \in SiteNames :
          /\ sites' = DeleteSite(sites, name)
          /\ mon' = Shutdown(mon, sites, name)
          /\ last' = [op |-> "delete_site", name |-> name]
    /\ nextId' = nextId + 1
    /\ UNCHANGED <<config, configFile, ctl, events>>

SiteNext == AddSiteCall \/ DeleteSiteCall

SpecSite == SiteInit /\ [][SiteNext]_vars

-----------------------------------------------------------------------------
(* Claims on the sites and their monitors, checked under SpecSite *)

\* the running monitor threads started by the site
MonitorsOf(site) == { t \in 1..Len(mon) : mon[t].site = site.id }

\* C23: after add_site the site is registered; when its login was answered
\* not ok it has logged_in false and no monitor, created or running; when
\* the login was answered ok it has logged_in true, and a local site has a
\* monitor and exactly one running monitor thread.
C23_LoginOutcome ==
    last.op = "add_site" =>
        LET k == GetSite(sites, last.name) IN
        /\ k # 0
        /\ sites[k].logged_in = last.login_ok
        /\ sites[k].monitor = (last.local /\ last.login_ok)
        /\ Cardinality(MonitorsOf(sites[k])) = IF last.local /\ last.login_ok THEN 1 ELSE 0

\* the third operation added a local site with a login answered ok, and it
\* is the only registered site
C23_Witness ==
    /\ last.op = "add_site" /\ last.local /\ last.login_ok
    /\ Len(sites) = 1 /\ sites[1].id[1] = 3
    /\ sites[1].monitor /\ Cardinality(MonitorsOf(sites[1])) = 1

\* C24: every running monitor thread is the thread of a registered site,
\* and at most one monitor thread is running.
C24_TeardownStopsWorker ==
    /\ \A t \in 1..Len(mon) : \E k \in 1..Len(sites) : sites[k].id = mon[t].site
    /\ Len(mon) <= 1


-----------------------------------------------------------------------------
(* Further claims on add_endpoint, checked under SpecBatch *)

\* the instance-profile entries queued in db, each with the site, the
\* tenant and the interface it is queued under
AllEntries(db) ==
    UNION { UNION { UNION { { <<s, db[s][t].name, db[s][t].children[o].name,
                                db[s][t].children[o].children[n]>> :
                                n \in 1..Len(db[s][t].children[o].children) }
                            : o \in 1..Len(db[s][t].children) }
                    : t \in 1..Len(db[s]) }
            : s \in DOMAIN db }

\* a step of add_endpoint keeps every queued entry that carries the tag of
\* another scope than the endpoint's
OtherScopesKept ==
    last'.op = "add_endpoint" =>
        \A x \in AllEntries(LocalDb) :
            x[4].tag # IntersiteTagStr(last'.ep.tenant, last'.ep.app, last'.ep.epg, LocalName)
            => x \in AllEntries(LocalDb')

\* C25: add_endpoint for an endpoint leaves in place every entry queued for
\* an endpoint of another scope, also one of the same key queued under the
\* same remote site, tenant and interface.
C25_MergeIdentityIncludesScope == [][OtherScopesKept]_vars


-----------------------------------------------------------------------------
(* SpecBurst: MultisiteMonitor.handle_endpoint_event as one operation on    *)
(* the events pending on the subscription.  MaxBurst stands for             *)
(* MAX_ENDPOINTS, scaled down so that more events than one burst takes can  *)
(* be pending.                                                              *)

MaxBurst == 2

\* the while loop of handle_endpoint_event: [db, pending, log], log the
\* calls on the EndpointHandler in the order they are made
RECURSIVE BurstLoop(_, _, _, _, _)
BurstLoop(db, pending, num_eps, local_site, log) ==
    IF pending # <<>> /\ num_eps # 0
    THEN With(AddEndpoint(db, Head(pending), local_site),
              LAMBDA queued :
                  BurstLoop(queued, Tail(pending), num_eps - 1, local_site,
                            Append(log, <<"add_endpoint", Head(pending)>>)))
    ELSE [db |-> db, pending |-> pending, log |-> log]

\* mutant: the burst takes every pending event, whatever the limit
HandleEndpointEventUncounted(ss, l, pending, max_endpoints, order, fails) ==
    With(BurstLoop(ss[l].db, pending, Len(pending), ss[l], <<>>),
    LAMBDA burst :
    With(PushToRemoteSites(burst.db, ss, OrderKeys(DOMAIN burst.db, order), fails),
    LAMBDA flush :
        [sites |-> [ss EXCEPT ![l].db = flush.db],
         pending |-> burst.pending,
         log |-> Append(burst.log, <<"push_to_remote_sites">>),
         sent |-> flush.sent, raised |-> flush.raised]))

\* MultisiteMonitor.handle_endpoint_event with num_eps starting at
\* max_endpoints
HandleEndpointEvent(ss, l, pending, max_endpoints, order, fails) ==
    With(BurstLoop(ss[l].db, pending, max_endpoints, ss[l], <<>>),
    LAMBDA burst :
    With(PushToRemoteSites(burst.db, ss, OrderKeys(DOMAIN burst.db, order), fails),
    LAMBDA flush :
        [sites |-> [ss EXCEPT ![l].db = flush.db],
         pending |-> burst.pending,
         log |-> Append(burst.log, <<"push_to_remote_sites">>),
         sent |-> flush.sent, raised |-> flush.raised]))

\* the endpoint events of the subscription
BurstEndpoints ==
    { e \in Endpoints : /\ e.ip = "10.0.0.5"
                        /\ \/ e.epg = "G1" /\ e.mac = <<"00:11:22:33:44:55">>
                           \/ e.epg = "G2" /\ e.mac = <<"66:77:88:99:AA:BB">> /\ ~e.deleted }

BurstInit ==
    /\ sites \in BatchSites
    /\ config = NoConfig
    /\ configFile = NoConfig
    /\ nextId = 1
    /\ mon = IdleThread
    /\ ctl = IdleThread
    /\ events \in UNION { [1..n -> BurstEndpoints] : n \in 1..(MaxBurst + 1) }
    /\ last = [op |-> "init"]

\* run: has_events is true and handle_endpoint_event is called
BurstCall ==
    /\ events # <<>>
    /\ \E fails \in { {}, { <<"R1", "T1">> } } :
       \E r \in { HandleEndpointEvent(sites, GetLocalSite(sites), events, MaxBurst,
                                      <<"R1", "R2">>, fails) } :
          /\ sites' = r.sites
          /\ events' = r.pending
          /\ last' = [op |-> "handle_endpoint_event", pending |-> events, log |-> r.log,
                      sent |-> r.sent, raised |-> r.raised]
    /\ UNCHANGED <<config, configFile, nextId, mon, ctl>>

BurstNext == BurstCall

SpecBurst == BurstInit /\ [][BurstNext]_vars

-----------------------------------------------------------------------------
(* Claims on handle_endpoint_event, checked under SpecBurst *)

\* the number of events one burst takes of those pending
Taken(pending) == IF Len(pending) < MaxBurst THEN Len(pending) ELSE MaxBurst

\* C26: one burst takes the pending events up to the limit and no more,
\* hands each of them to add_endpoint in the order of arrival, and calls
\* push_to_remote_sites once, after the last of them; the events beyond the
\* limit stay pending.
C26_BurstBounded ==
    last.op = "handle_endpoint_event" =>
        /\ last.log = [i \in 1..Taken(last.pending) |-> <<"add_endpoint", last.pending[i]>>]
                      \o << <<"push_to_remote_sites">> >>
        /\ events = SubSeq(last.pending, Taken(last.pending) + 1, Len(last.pending))

\* more events were pending than one burst takes
C26_Witness ==
    /\ last.op = "handle_endpoint_event"
    /\ Len(last.pending) = MaxBurst + 1
    /\ events # <<>>
    /\ \E k \in 1..Len(last.sent) : last.sent[k].op = "push"

-----------------------------------------------------------------------------
(* Further claims on the monitor thread, checked under SpecMon *)

\* the thread is inside handle_endpoint_event
InBurst(thread) == thread.pc \in {"burst", "add", "push", "clear"}

\* with the stop flag set, the test of the run loop ends the loop
NoBurstAfterStop == mon.exit /\ mon.pc = "loop" => mon'.pc \in {"loop", "done"}

\* a burst goes on until it is back at the test of the run loop
BurstCompleted == InBurst(mon) => InBurst(mon') \/ mon'.pc = "loop"

\* C27: once the stop flag is set the run loop starts no new burst and ends
\* at its next test of the flag, and a burst in progress is never cut short:
\* from inside handle_endpoint_event the thread goes nowhere but on with the
\* burst (events taken, batch pushed and cleared) and back to the test of the
\* flag.
C27_CooperativeStop == [][NoBurstAfterStop /\ BurstCompleted]_vars

-----------------------------------------------------------------------------
(* Further claims on verify_endpoints, checked under SpecVerify *)

\* the children of a profile that are bindings outside the corresponding
\* list of the policy's interface entry
Stale(l3out, entry) ==
    { k \in 1..Len(entry.children) :
        /\ entry.children[k].kind \in BindingKinds
        /\ entry.children[k].name \notin Range(AuthorizedList(l3out, entry.children[k].kind)) }

\* the children of a pushed profile that verify marked: deleted in the push,
\* not so in the inventory the remote site answered with
Marked(found, data) ==
    { k \in 1..Len(data.children) :
        /\ data.children[k].status = "deleted"
        /\ \E e \in 1..Len(found) :
              /\ found[e].name = data.name
              /\ found[e].children[k].status # "deleted" }

\* every profile verify pushed has a child it marked, and is itself the
\* profile as answered, without a status of its own
PushedAreMarked ==
    \A t \in 1..Len(PolicyTargets(last.policy)) :
        LET target == PolicyTargets(last.policy)[t]
            found == InventoryAt(last.inv, InventoryKey(target))
        IN \A i \in PushesFor(target) :
              /\ Marked(found, last.sent[i].data) # {}
              /\ DOMAIN last.sent[i].data = {"name", "children"}

\* a profile whose bindings are all in the lists of the policy's interface
\* entry is not pushed
AuthorizedNotPushed ==
    \A t \in 1..Len(PolicyTargets(last.policy)) :
        LET target == PolicyTargets(last.policy)[t]
            found == InventoryAt(last.inv, InventoryKey(target))
        IN \A e \in 1..Len(found) :
              Stale(target.l3out, found[e]) = {}
                 => \A i \in PushesFor(target) : last.sent[i].data.name # found[e].name

\* C28: verify pushes a profile back exactly when it marked one of the
\* profile's children deleted: every pushed profile has a child marked by
\* verify and carries no deletion of the profile itself, and a profile all
\* of whose bindings the policy authorizes is not pushed.
C28_PushIffMarked ==
    last.op = "verify_endpoints" => PushedAreMarked /\ AuthorizedNotPushed

-----------------------------------------------------------------------------
(* Further claim on add_endpoint, checked under SpecBatch *)

\* in db an entry for the endpoint's key and scope is queued at every target
\* of the endpoint's policy, marked deleted when the endpoint is
QueuedEverywhere(db, endpoint, local_site) ==
    LET targets == EndpointTargets(endpoint, local_site)
        tag == IntersiteTagStr(endpoint.tenant, endpoint.app, endpoint.epg, local_site.name)
    IN \A i \in 1..Len(targets) :
          \E e \in QueuedEntries(db, targets[i], endpoint.mac) :
             /\ QueuedEntry(db, targets[i], e).tag = tag
             /\ endpoint.deleted => QueuedEntry(db, targets[i], e).status = "deleted"

\* a call of add_endpoint for an endpoint of an exported scope leaves the
\* store as it is when the endpoint has no address and is not deleted, and
\* queues it everywhere otherwise
IgnoreRule ==
    (last'.op = "add_endpoint" /\ EndpointTargets(last'.ep, sites[GetLocalSite(sites)]) # <<>>) =>
        IF ~HasAddress(last'.ep) /\ ~last'.ep.deleted
        THEN LocalDb' = LocalDb
        ELSE QueuedEverywhere(LocalDb', last'.ep, sites[GetLocalSite(sites)])

\* C29: add_endpoint ignores an endpoint of an exported scope exactly when
\* it has no address (none, or the placeholder 0.0.0.0) and is not marked
\* deleted; an endpoint marked deleted is queued as a deletion marker at
\* every target of its policy whatever its address field holds.
C29_IgnoreRule == [][IgnoreRule]_vars

-----------------------------------------------------------------------------
(* Further claim on reload_config, checked under SpecReload *)

\* the collector's stored configuration is the one built from the document
\* of the last reload
StoredIsNew == config = IntersiteConfiguration(last.doc, nextId - 1)

\* the last reload took the document the collector had loaded before it
SameAgain == last.previous = last.doc

\* the reload changed no site and no registry, sent nothing and raised nothing
NothingDone == ~last.raised /\ sites = last.before /\ last.sent = <<>>

\* C30: after a reload with a valid document has run to its end the stored
\* configuration is the new one, whether or not a local site was added, and
\* a reload of the configuration already loaded adds and deletes no site,
\* unregisters no policy, purges nothing and raises no error.
C30_ReloadIdempotent ==
    (last.op = "reload_config" /\ Validates(last.doc)) =>
        /\ ~last.raised => StoredIsNew
        /\ SameAgain => NothingDone

-----------------------------------------------------------------------------
(* Further claim on the shared batch store, checked under SpecMon *)

\* the thread has made the pushes of push_to_remote_sites and has not yet
\* executed "self.db = {}"
Flushing(thread) == thread.pc = "clear"

\* while a thread stands between its pushes and its clearing of the store no
\* entry enters the store: such an entry was in no document of those pushes
\* and is gone with the clearing
NothingQueuedInsideFlush ==
    (Flushing(mon) \/ Flushing(ctl)) => AllEntries(LocalDb') \subseteq AllEntries(LocalDb)

\* C31: no queued entry is lost.  Under every interleaving of a burst of the
\* monitor thread with a seed of the control path, the store that a flush
\* clears holds only entries that were in the store when the flush made its
\* pushes, so that every entry add_endpoint queued is handed to a push
\* attempt before it is cleared.
C31_NoQueuedEntryLost == [][NothingQueuedInsideFlush]_vars

-----------------------------------------------------------------------------
(* SpecPurge: the tool started with a configuration whose export policy     *)
(* targets R2 and R1, then edits of the file and reloads as in SpecReload.  *)

\* scope (T1, A1, G1) exported to R2 and to R1 through out1 of T1
ExportG1Wide ==
    ExportDoc("T1", "A1", "G1", << RemoteSitePolicy("R2", <<Out1T1>>),
                                   RemoteSitePolicy("R1", <<Out1T1>>) >>)

DocWide == ConfigDoc(<<SiteL, SiteR1, SiteR2>>, <<ExportG1Wide>>)

PurgeInit ==
    /\ sites = <<>>
    /\ config = NoConfig
    /\ configFile = DocWide
    /\ nextId = 1
    /\ mon = IdleThread
    /\ ctl = IdleThread
    /\ events = <<>>
    /\ last = [op |-> "init"]

SpecPurge == PurgeInit /\ [][ReloadNext]_vars

-----------------------------------------------------------------------------
(* Claim on reload_config, checked under SpecPurge *)

\* the export policies the reload removes that target a remote site which
\* the configuration in force listed and the document of the reload does not
RemovedWithSite ==
    { p \in RemovedPolicies :
        \E t \in 1..Len(PolicyTargets(p)) :
            /\ PolicyTargets(p)[t].site \in PolicyNames(last.previous.site_policies)
            /\ PolicyTargets(p)[t].site \notin PolicyNames(last.doc.site_policies) }

\* every interface the policy targets at a site that is still registered was
\* queried by the policy's tag and every profile found there was sent a push
\* with status deleted, unless the query was answered not ok
RemainingPurged(p) ==
    \A t \in 1..Len(PolicyTargets(p)) :
        LET target == PolicyTargets(p)[t]
            itag == IntersiteTagStr(p.tenant, p.app, p.epg, sites[GetLocalSite(sites)].name)
            tagged == QueryByTag(RemoteInventory, InventoryKey(target), itag)
        IN GetSite(sites, target.site) # 0 =>
              \/ QueryFailed(last.sent, target, itag)
              \/ /\ Queried(last.sent, target, itag)
                 /\ \A k \in 1..Len(tagged) : PurgePushed(last.sent, target, tagged[k].name)

\* C32: a reload that removes an export policy one of whose remote sites is
\* removed from the configuration by the same reload runs to its end without
\* raising and purges the policy's entries at the targets that remain.
C32_PurgeSurvivesSiteRemoval ==
    (ReloadAccepted /\ LocalSiteKept) =>
        \A p \in RemovedWithSite : ~last.raised /\ RemainingPurged(p)

-----------------------------------------------------------------------------
(* SpecRegistry: the policy registry of the local site under sequences of   *)
(* add_policy and remove_policy calls.                                      *)

MaxPolicyOps == 3

\* the local site, logged in or not, with an empty registry, and the remote
\* sites (R2 may be missing)
RegistrySites ==
    { [ss EXCEPT ![1] = [StartSite(NewSite(<<0, 1>>, LocalName, ss[1].credentials, TRUE), ok)
                           EXCEPT !.policy_db = <<>>]]
        : ss \in BatchSites, ok \in BOOLEAN }

\* the ExportPolicy objects a caller may hand over: a new object, or one of
\* the registry
PoliciesToAdd(policy_db, id) ==
    { ExportPolicy(id, "T1", "A1", epg, remote_sites) :
        epg \in {"G1", "G2"}, remote_sites \in {SitesG1, SitesG2} }
    \cup Range(policy_db)

RegistryInit ==
    /\ sites \in RegistrySites
    /\ config = NoConfig
    /\ configFile = NoConfig
    /\ nextId = 1
    /\ mon = IdleThread
    /\ ctl = IdleThread
    /\ events = <<>>
    /\ last = [op |-> "init"]

\* a call of LocalSite.add_policy
AddPolicyCall ==
    LET l == GetLocalSite(sites) IN
    /\ ctl = IdleThread
    /\ nextId <= MaxPolicyOps
    /\ \E policy \in PoliciesToAdd(sites[l].policy_db, <<nextId, 1>>) :
       \E r \in { AddPolicy(sites, l, policy, ReloadEnv) } :
          /\ sites' = r.sites
          /\ ctl' = IF r.raised THEN Crashed ELSE ctl
          /\ last' = [op |-> "add_policy", policy |-> policy, raised |-> r.raised,
                      old |-> RegisteredPolicy(sites, policy.tenant, policy.app, policy.epg)]
    /\ nextId' = nextId + 1
    /\ UNCHANGED <<config, configFile, mon, events>>

\* a call of LocalSite.remove_policy with a policy of the registry
RemovePolicyCall ==
    LET l == GetLocalSite(sites) IN
    /\ ctl = IdleThread
    /\ nextId <= MaxPolicyOps
    /\ \E policy \in Range(sites[l].policy_db) :
       \E r \in { RemovePolicy(sites, l, policy) } :
          /\ sites' = r.sites
          /\ ctl' = IF r.raised THEN Crashed ELSE ctl
          /\ last' = [op |-> "remove_policy", policy |-> policy, raised |-> r.raised]
    /\ nextId' = nextId + 1
    /\ UNCHANGED <<config, configFile, mon, events>>

RegistryNext == AddPolicyCall \/ RemovePolicyCall

SpecRegistry == RegistryInit /\ [][RegistryNext]_vars

-----------------------------------------------------------------------------
(* Claim on the policy registry, checked under SpecRegistry *)

\* no two entries of a registry are policies of the same scope
OnePerScope(policy_db) ==
    \A i, j \in 1..Len(policy_db) : HasSameEpg(policy_db[i], policy_db[j]) => i = j

\* C33: the registry of the local site holds at most one export policy per
\* scope, and after add_policy(policy) the policy get_policy_for_epg returns
\* for the scope is the object just added.
C33_OnePolicyPerScope ==
    /\ \A k \in 1..Len(sites) : sites[k].local => OnePerScope(sites[k].policy_db)
    /\ last.op = "add_policy" =>
          RegisteredPolicy(sites, last.policy.tenant, last.policy.app, last.policy.epg)
             = <<last.policy>>

\* add_policy replaced another policy object registered for the scope
C33_Witness ==
    /\ last.op = "add_policy"
    /\ ~last.raised
    /\ last.old # <<>>
    /\ last.old[1] # last.policy
    /\ Len(sites[GetLocalSite(sites)].policy_db) = 2

-----------------------------------------------------------------------------
(* SpecProvenance: what the remote sites hold under pushes of endpoints,    *)
(* verify_endpoints and remove_all_entries_for_policy of one local site.    *)
(* last.inv is the inventory of the remote sites: per interface the list of *)
(* instance profiles, each with the scope it was pushed for.                *)

MaxProvOps == 3

Scope(x) == <<x.tenant, x.app, x.epg>>

\* the interfaces of the remote sites
ProvKeys ==
    UNION { { InventoryKey(PolicyTargets(policy)[t]) : t \in 1..Len(PolicyTargets(policy)) }
            : policy \in Range(BatchLocalSite.policy_db) }

\* the l3extInstP object the remote site holds after the push of the queued
\* entry n: its bindings and its tagInst child
Installed(n, scope) ==
    [name |-> n.name, scope |-> scope,
     children |-> [k \in 1..Len(n.prov) |-> Binding("fvRsProv", n.prov[k])]
                  \o [k \in 1..Len(n.cons) |-> Binding("fvRsCons", n.cons[k])]
                  \o [k \in 1..Len(n.prot) |-> Binding("fvRsProtBy", n.prot[k])]
                  \o [k \in 1..Len(n.consif) |-> Binding("fvRsConsIf", n.consif[k])]
                  \o << Binding("tagInst", n.tag) >>]

\* the list of an interface without the object of that name
Without(profiles, name) == SelectSeq(profiles, LAMBDA e : e.name # name)

\* the remote site applies one request to the list of the interface key
ApplyRequest(profiles, key, request, scope) ==
    IF request.op # "push" \/ ~request.ok \/ request.site # key[1] THEN profiles
    ELSE IF request.url = <<"tenant">>
    THEN IF request.data.name # key[2] THEN profiles
         ELSE LET outs == SelectSeq(request.data.children, LAMBDA o : o.name = key[3])
                  entries == Flatten([o \in 1..Len(outs) |-> outs[o].children])
              IN IF entries = <<>> THEN profiles
                 ELSE LET n == entries[Len(entries)]
                      IN IF n.status = "deleted" THEN Without(profiles, n.name)
                         ELSE Append(Without(profiles, n.name), Installed(n, scope))
    ELSE IF request.url = <<"out", key[2], key[3]>>
    THEN [k \in 1..Len(profiles) |->
             IF profiles[k].name = request.data.name
             THEN [profiles[k] EXCEPT !.children =
                      SelectSeq(request.data.children, LAMBDA c : c.status # "deleted")]
             ELSE profiles[k]]
    ELSE IF request.url[1] = "mo" /\ request.url[2] = key
    THEN Without(profiles, request.url[3])
    ELSE profiles

RECURSIVE ApplyRequests(_, _, _, _, _)
ApplyRequests(profiles, key, sent, scope, i) ==
    IF i > Len(sent) THEN profiles
    ELSE With(ApplyRequest(profiles, key, sent[i], scope),
              LAMBDA applied : ApplyRequests(applied, key, sent, scope, i + 1))

\* the inventory after the requests sent
Applied(inv, sent, scope) ==
    [key \in DOMAIN inv |-> ApplyRequests(inv[key], key, sent, scope, 1)]

ProvInit ==
    /\ sites \in BatchSites
    /\ config = NoConfig
    /\ configFile = NoConfig
    /\ nextId = 1
    /\ mon = IdleThread
    /\ ctl = IdleThread
    /\ events = <<>>
    /\ last = [op |-> "init", inv |-> [key \in ProvKeys |-> <<>>]]

\* an endpoint event handled by the monitor: add_endpoint and
\* push_to_remote_sites
ProvPushCall ==
    LET l == GetLocalSite(sites) IN
    /\ nextId <= MaxProvOps
    /\ \E e \in { e \in Endpoints : e.ip = "10.0.0.5" /\ e.epg \in {"G1", "G2"} } :
       \E queued \in { AddEndpoint(sites[l].db, e, sites[l]) } :
       \E r \in { PushToRemoteSites(queued, sites, OrderKeys(DOMAIN queued, <<"R1", "R2">>), {}) } :
          last' = [op |-> "push_to_remote_sites", ep |-> e, before |-> last.inv,
                   sent |-> r.sent, raised |-> r.raised,
                   inv |-> Applied(last.inv, r.sent, Scope(e))]
    /\ nextId' = nextId + 1
    /\ UNCHANGED <<sites, config, configFile, mon, ctl, events>>

\* verify_endpoints of the local site's monitor with a policy of the registry
ProvVerifyCall ==
    LET l == GetLocalSite(sites) IN
    /\ nextId <= MaxProvOps
    /\ \E p \in 1..Len(sites[l].policy_db) :
       \E r \in { VerifyEndpoints(sites[l].policy_db[p], sites[l].name, sites, last.inv, {}, {}) } :
          last' = [op |-> "verify_endpoints", policy |-> sites[l].policy_db[p],
                   before |-> last.inv, sent |-> r.sent, raised |-> r.raised,
                   inv |-> Applied(last.inv, r.sent, <<>>)]
    /\ nextId' = nextId + 1
    /\ UNCHANGED <<sites, config, configFile, mon, ctl, events>>

\* remove_all_entries_for_policy of the collector with a policy of the registry
ProvPurgeCall ==
    LET l == GetLocalSite(sites) IN
    /\ nextId <= MaxProvOps
    /\ \E p \in 1..Len(sites[l].policy_db) :
       \E r \in { RemoveAllEntriesForPolicy(sites, sites[l].policy_db[p],
                                            [ReloadEnv EXCEPT !.inv = last.inv]) } :
          last' = [op |-> "remove_all_entries_for_policy", policy |-> sites[l].policy_db[p],
                   before |-> last.inv, sent |-> r.sent, raised |-> r.raised,
                   inv |-> Applied(last.inv, r.sent, <<>>)]
    /\ nextId' = nextId + 1
    /\ UNCHANGED <<sites, config, configFile, mon, ctl, events>>

ProvNext == ProvPushCall \/ ProvVerifyCall \/ ProvPurgeCall

SpecProvenance == ProvInit /\ [][ProvNext]_vars

-----------------------------------------------------------------------------
(* Claim on the tag, checked under SpecProvenance *)

\* the objects pushed for the scope of the policy that an interface held
\* before the last operation
PushedForScope(target) ==
    LET held == last.before[InventoryKey(target)]
    IN { held[k].name : k \in { k \in 1..Len(held) : held[k].scope = Scope(last.policy) } }

\* the second query of verify_endpoints asked for the object by name
FoundByVerify(target, name) ==
    \E k \in 1..Len(last.sent) :
        /\ last.sent[k].op = "get" /\ last.sent[k].site = target.site
        /\ last.sent[k].url[1] = "names" /\ last.sent[k].url[2] = InventoryKey(target)
        /\ name \in last.sent[k].url[3]

\* C34: the tag add_endpoint attaches, the tag verify queries by and the tag
\* the purge queries by are the same string for a scope: at every interface
\* of a registered remote site that a policy targets, every object pushed
\* for the policy's scope is found by verify_endpoints of the policy, and is
\* found and sent a push with status deleted by
\* remove_all_entries_for_policy.
C34_ProvenanceConsistent ==
    /\ last.op = "verify_endpoints" =>
          \A t \in 1..Len(PolicyTargets(last.policy)) :
              LET target == PolicyTargets(last.policy)[t] IN
              GetSite(sites, target.site) # 0 =>
                  \A name \in PushedForScope(target) : FoundByVerify(target, name)
    /\ last.op = "remove_all_entries_for_policy" =>
          \A t \in 1..Len(PolicyTargets(last.policy)) :
              LET target == PolicyTargets(last.policy)[t] IN
              GetSite(sites, target.site) # 0 =>
                  \A name \in PushedForScope(target) : PurgePushed(last.sent, target, name)

\* a purge found an object pushed for the scope, after a verify
C34_Witness ==
    /\ last.op = "remove_all_entries_for_policy"
    /\ \E t \in 1..Len(PolicyTargets(last.policy)) :
          /\ PushedForScope(PolicyTargets(last.policy)[t]) # {}
          /\ last.inv[InventoryKey(PolicyTargets(last.policy)[t])] = <<>>

====
